---------------------------- MODULE Spec2Model ----------------------------
(***************************************************************************)
(* Model of the breenix GDB session controllers:                           *)
(*   GDBChat    (src/breenix-gdb-chat/scripts/gdb_chat.py)                 *)
(*   GDBSession (src/breenix-gdb-chat/scripts/lib/gdb_controller.py)       *)
(* Text is modelled by TLA+ strings, character by character: the prompt    *)
(* scanner, the output cleaning and the parsers work on the same text the  *)
(* Python code works on.  Time is the wall clock in seconds.               *)
(***************************************************************************)
EXTENDS Integers, Sequences, FiniteSets, TLC

(***************************************************************************)
(* Python string primitives                                                *)
(***************************************************************************)

Min(a, b) == IF a < b THEN a ELSE b

\* s[i] (1-based), as a one-character string
Char(s, i) == SubSeq(s, i, i)

\* s[:n]
Take(s, n) == SubSeq(s, 1, Min(n, Len(s)))

\* s[n:]
Drop(s, n) == SubSeq(s, n + 1, Len(s))

\* sub in s
Contains(s, sub) ==
    \E i \in 1..(Len(s) - Len(sub) + 1) : SubSeq(s, i, i + Len(sub) - 1) = sub

\* s.startswith(p)
StartsWith(s, p) == Len(p) <= Len(s) /\ SubSeq(s, 1, Len(p)) = p

\* s.endswith(p)
EndsWith(s, p) == Len(p) <= Len(s) /\ SubSeq(s, Len(s) - Len(p) + 1, Len(s)) = p

\* str.isspace() of one character
IsSpace(c) == c \in {" ", "\n", "\t", "\r"}

RECURSIVE RStrip(_)
\* s.rstrip()
RStrip(s) ==
    IF Len(s) > 0 /\ IsSpace(Char(s, Len(s)))
    THEN RStrip(SubSeq(s, 1, Len(s) - 1))
    ELSE s

RECURSIVE LStrip(_)
\* s.lstrip()
LStrip(s) ==
    IF Len(s) > 0 /\ IsSpace(Char(s, 1))
    THEN LStrip(SubSeq(s, 2, Len(s)))
    ELSE s

\* s.strip()
Strip(s) == LStrip(RStrip(s))

UpperLetters == "ABCDEFGHIJKLMNOPQRSTUVWXYZ"

LowerLetters == "abcdefghijklmnopqrstuvwxyz"

LowerChar(c) ==
    IF \E i \in 1..Len(UpperLetters) : Char(UpperLetters, i) = c
    THEN Char(LowerLetters, CHOOSE i \in 1..Len(UpperLetters) : Char(UpperLetters, i) = c)
    ELSE c

RECURSIVE Lower(_)
\* s.lower()
Lower(s) ==
    IF Len(s) = 0 THEN s
    ELSE IF Len(s) = 1 THEN LowerChar(s)
    ELSE Lower(SubSeq(s, 1, Len(s) \div 2)) \o Lower(SubSeq(s, Len(s) \div 2 + 1, Len(s)))

\* s.split(sep) for a one-character separator
Split(s, sep) ==
    LET cuts == { i \in 1..Len(s) : Char(s, i) = sep }
        n == Cardinality(cuts)
        Cut(k) == IF k = 0 THEN 0
                  ELSE IF k = n + 1 THEN Len(s) + 1
                  ELSE CHOOSE i \in cuts : Cardinality({ j \in cuts : j < i }) = k - 1
    IN  [k \in 1..(n + 1) |-> SubSeq(s, Cut(k - 1) + 1, Cut(k) - 1)]

RECURSIVE Join(_, _)
\* sep.join(parts)
Join(parts, sep) ==
    IF Len(parts) = 0 THEN ""
    ELSE IF Len(parts) = 1 THEN parts[1]
    ELSE parts[1] \o sep \o Join(Tail(parts), sep)

(***************************************************************************)
(* Regular-expression primitives (Python re) and number conversions        *)
(***************************************************************************)

Digits == "0123456789"

\* [0-9a-fA-F]
HexChars == "0123456789abcdefABCDEF"

\* \w
WordChars == LowerLetters \o UpperLetters \o Digits \o "_"

\* \s
SpaceChars == " \n\t\r"

\* c, one character, is in the class
InClass(chars, c) == \E k \in 1..Len(chars) : Char(chars, k) = c

\* End (exclusive) of the longest run of characters of the class from i on:
\* where a greedy [class]* stops.
SpanEnd(s, i, chars) ==
    CHOOSE j \in i..(Len(s) + 1) :
        /\ \A k \in i..(j - 1) : InClass(chars, Char(s, k))
        /\ (j = Len(s) + 1 \/ ~InClass(chars, Char(s, j)))

\* The same for the complement class: where a greedy [^class]* stops.
SpanEndNot(s, i, chars) ==
    CHOOSE j \in i..(Len(s) + 1) :
        /\ \A k \in i..(j - 1) : ~InClass(chars, Char(s, k))
        /\ (j = Len(s) + 1 \/ InClass(chars, Char(s, j)))

\* s[i:].startswith(p), i 1-based
At(s, i, p) == i + Len(p) - 1 <= Len(s) /\ SubSeq(s, i, i + Len(p) - 1) = p

\* The first position from i on where p occurs; Len(s) + 1 when there is none
Find(s, i, p) ==
    LET hits == { j \in i..Len(s) : At(s, j, p) } IN
    IF hits = {} THEN Len(s) + 1 ELSE CHOOSE j \in hits : \A k \in hits : j <= k

DigitValue(c) == (CHOOSE k \in 1..Len(HexChars) : Char(HexChars, k) = c) - 1

HexValue(c) == LET v == DigitValue(c) IN IF v >= 16 THEN v - 6 ELSE v

RECURSIVE StrToNat(_)
\* int(s) for a string of decimal digits
StrToNat(s) ==
    IF Len(s) = 0 THEN 0
    ELSE StrToNat(SubSeq(s, 1, Len(s) - 1)) * 10 + DigitValue(Char(s, Len(s)))

RECURSIVE HexDigitsToNat(_)
HexDigitsToNat(s) ==
    IF Len(s) = 0 THEN 0
    ELSE HexDigitsToNat(SubSeq(s, 1, Len(s) - 1)) * 16 + HexValue(Char(s, Len(s)))

\* int(s, 16) for "0x..." text
HexToNat(s) == HexDigitsToNat(Drop(s, 2))

RECURSIVE NatToHexDigits(_)
NatToHexDigits(n) ==
    IF n < 16 THEN Char(HexChars, n + 1)
    ELSE NatToHexDigits(n \div 16) \o Char(HexChars, (n % 16) + 1)

\* hex(n)
Hex(n) == "0x" \o NatToHexDigits(n)

(***************************************************************************)
(* Structured output parsers                                               *)
(***************************************************************************)

\* A Python dict with no entries.
EmptyDict == [k \in {} |-> ""]

\* re.match(r'^(\w+)\s+(0x[0-9a-fA-F]+)', line): << >> (no match) or
\* << group(1), group(2) >>.  The three classes are disjoint from what must
\* follow them, so each greedy run is the longest one.
MatchRegister(line) ==
    LET a == SpanEnd(line, 1, WordChars)
        b == SpanEnd(line, a, SpaceChars)
        c == SpanEnd(line, b + 2, HexChars)
    IN  IF a > 1 /\ b > a /\ At(line, b, "0x") /\ c > b + 2
        THEN << SubSeq(line, 1, a - 1), SubSeq(line, b, c - 1) >>
        ELSE << >>

RECURSIVE RegistersOfLines(_)
\* the dict after the loop over the lines: a later line overwrites an earlier one
RegistersOfLines(lines) ==
    IF Len(lines) = 0 THEN EmptyDict
    ELSE LET m == MatchRegister(Strip(lines[Len(lines)]))
             before == RegistersOfLines(SubSeq(lines, 1, Len(lines) - 1))
         IN  IF Len(m) = 2 THEN (m[1] :> m[2]) @@ before ELSE before

RECURSIVE RegistersFirstWins(_)
\* a dict in which the first line of a name is the one kept
RegistersFirstWins(lines) ==
    IF Len(lines) = 0 THEN EmptyDict
    ELSE LET m == MatchRegister(Strip(lines[Len(lines)]))
             before == RegistersFirstWins(SubSeq(lines, 1, Len(lines) - 1))
         IN  IF Len(m) = 2 THEN before @@ (m[1] :> m[2]) ELSE before

\* parse_registers keeping the first value of a name
parse_registers_first_wins(output) == RegistersFirstWins(Split(output, "\n"))

\* gdb_parser.parse_registers
parse_registers(output) == RegistersOfLines(Split(output, "\n"))

\* GDBChat._parse_registers
GDBChat_parse_registers(output) == RegistersOfLines(Split(output, "\n"))

\* The part r'#(\d+)\s+(0x[0-9a-fA-F]+)\s+in\s+' of the frame patterns matched
\* at i: [ok, number, address, next], next the start of (\S+).
MatchFrameHead(s, i) ==
    LET d  == SpanEnd(s, i + 1, Digits)
        w  == SpanEnd(s, d, SpaceChars)
        h  == SpanEnd(s, w + 2, HexChars)
        w2 == SpanEnd(s, h, SpaceChars)
        w3 == SpanEnd(s, w2 + 2, SpaceChars)
    IN  IF /\ At(s, i, "#") /\ d > i + 1 /\ w > d /\ At(s, w, "0x") /\ h > w + 2
           /\ w2 > h /\ At(s, w2, "in") /\ w3 > w2 + 2 /\ w3 <= Len(s)
        THEN [ok |-> TRUE, number |-> StrToNat(SubSeq(s, i + 1, d - 1)),
              address |-> SubSeq(s, w, h - 1), next |-> w3]
        ELSE [ok |-> FALSE, number |-> 0, address |-> "", next |-> 0]

RECURSIVE GDBChat_frames_from(_, _)
\* re.finditer over the whole output, from position i on
GDBChat_frames_from(s, i) ==
    IF i > Len(s) THEN << >>
    ELSE LET m == MatchFrameHead(s, i)
             e == SpanEndNot(s, m.next, SpaceChars)
         IN  IF m.ok
             THEN << [frame |-> m.number, addr |-> m.address,
                      func |-> SubSeq(s, m.next, e - 1)] >>
                  \o GDBChat_frames_from(s, e)
             ELSE GDBChat_frames_from(s, Find(s, i + 1, "#"))

\* GDBChat._parse_backtrace
GDBChat_parse_backtrace(output) == GDBChat_frames_from(output, 1)

\* The tail r'\s*\(([^)]*)\)' matched at e: [ok, args, next].
MatchArgs(s, e) ==
    LET p == SpanEnd(s, e, SpaceChars)
        q == SpanEndNot(s, p + 1, ")")
    IN  IF At(s, p, "(") /\ q <= Len(s)
        THEN [ok |-> TRUE, args |-> SubSeq(s, p + 1, q - 1), next |-> q + 1]
        ELSE [ok |-> FALSE, args |-> "", next |-> 0]

\* The optional r'(?:\s+at\s+([^:]+):(\d+))?' matched at e: [ok, file, line].
\* ([^:]+) runs to the first colon; when the colon follows the blanks after
\* "at" directly, the greedy \s+ gives its last blank back to ([^:]+).
MatchSource(s, e) ==
    LET a == SpanEnd(s, e, SpaceChars)
        b == SpanEnd(s, a + 2, SpaceChars)
        c == SpanEndNot(s, b, ":")
        f == IF c > b THEN b ELSE b - 1
        d == SpanEnd(s, c + 1, Digits)
    IN  IF /\ e <= Len(s) /\ a > e /\ At(s, a, "at") /\ b > a + 2
           /\ c <= Len(s) /\ f > a + 2 /\ d > c + 1
        THEN [ok |-> TRUE, file |-> SubSeq(s, f, c - 1),
              line |-> StrToNat(SubSeq(s, c + 1, d - 1))]
        ELSE [ok |-> FALSE, file |-> "", line |-> 0]

\* pattern_with_source matched at i: (\S+) is greedy, so it ends at the largest
\* e for which the argument list still matches.
MatchFrameWithSource(s, i) ==
    LET m    == MatchFrameHead(s, i)
        top  == SpanEndNot(s, m.next, SpaceChars)
        ends == { e \in (m.next + 1)..top : MatchArgs(s, e).ok }
        e    == CHOOSE x \in ends : \A y \in ends : y <= x
        g    == MatchArgs(s, e)
        src  == MatchSource(s, g.next)
        base == [number |-> m.number, address |-> m.address,
                 function |-> SubSeq(s, m.next, e - 1), args |-> g.args]
    IN  IF m.ok /\ ends # {}
        THEN << IF src.ok
                THEN [number |-> base.number, address |-> base.address,
                      function |-> base.function, args |-> base.args,
                      file |-> src.file, line |-> src.line]
                ELSE base >>
        ELSE << >>

\* pattern_no_source matched at i
MatchFrameNoSource(s, i) ==
    LET m == MatchFrameHead(s, i)
        e == SpanEndNot(s, m.next, SpaceChars)
    IN  IF m.ok
        THEN << [number |-> m.number, address |-> m.address,
                 function |-> SubSeq(s, m.next, e - 1)] >>
        ELSE << >>

\* re.search of one line: the frame of the leftmost match, with source first
FrameOfLine(line) ==
    LET with == { i \in 1..Len(line) : Len(MatchFrameWithSource(line, i)) = 1 }
        without == { i \in 1..Len(line) : Len(MatchFrameNoSource(line, i)) = 1 }
    IN  IF with # {}
        THEN MatchFrameWithSource(line, CHOOSE i \in with : \A j \in with : i <= j)
        ELSE IF without # {}
        THEN MatchFrameNoSource(line, CHOOSE i \in without : \A j \in without : i <= j)
        ELSE << >>

RECURSIVE FramesOfLines(_)
FramesOfLines(lines) ==
    IF Len(lines) = 0 THEN << >>
    ELSE FrameOfLine(Strip(lines[1])) \o FramesOfLines(Tail(lines))

\* gdb_parser.parse_backtrace
parse_backtrace(output) == FramesOfLines(Split(output, "\n"))

RECURSIVE FindHex(_, _)
\* re.findall(r'0x[0-9a-fA-F]+', s), from position i on
FindHex(s, i) ==
    IF i > Len(s) THEN << >>
    ELSE LET h == SpanEnd(s, i + 2, HexChars)
         IN  IF At(s, i, "0x") /\ h > i + 2
             THEN << SubSeq(s, i, h - 1) >> \o FindHex(s, h)
             ELSE FindHex(s, Find(s, i + 1, "0x"))

\* re.match(r'(0x[0-9a-fA-F]+)(?:\s+<[^>]+>)?:\s+(.*)', line): << >> or
\* << group(1), group(2) >>
MatchMemory(line) ==
    LET h  == SpanEnd(line, 3, HexChars)
        w  == SpanEnd(line, h, SpaceChars)
        g  == SpanEndNot(line, w + 1, ">")
        sym == w > h /\ At(line, w, "<") /\ g > w + 1 /\ g <= Len(line)
        col == IF sym /\ At(line, g + 1, ":") THEN g + 1 ELSE h
        r  == SpanEnd(line, col + 1, SpaceChars)
    IN  IF At(line, 1, "0x") /\ h > 3 /\ At(line, col, ":") /\ r > col + 1
        THEN << SubSeq(line, 1, h - 1), SubSeq(line, r, Len(line)) >>
        ELSE << >>

\* the width the synthesized addresses assume ("offset = i * 8")
WordWidth == 8

\* the words of one matching line
MemoryWordsOfLine(line) ==
    LET m == MatchMemory(line)
        vals == FindHex(m[2], 1)
    IN  IF Len(m) = 2
        THEN [i \in 1..Len(vals) |->
                [address |-> Hex(HexToNat(m[1]) + (i - 1) * WordWidth),
                 value |-> vals[i]]]
        ELSE << >>

RECURSIVE MemoryOfLines(_)
MemoryOfLines(lines) ==
    IF Len(lines) = 0 THEN << >>
    ELSE MemoryWordsOfLine(Strip(lines[1])) \o MemoryOfLines(Tail(lines))

\* gdb_parser.parse_memory
parse_memory(output) == MemoryOfLines(Split(output, "\n"))

(***************************************************************************)
(* Program constants                                                       *)
(***************************************************************************)

GDB_PROMPT == "(gdb)"

\* the class defaults of GDBChat.execute, and the default of execute_command
ContinueTimeout == 300

RunTimeout == 300

DefaultTimeout == 30

\* _wait_for_prompt(timeout=30) of start(), and the timeout of _send_raw
StartTimeout == 30

\* idle window of the breakpoint wait
idle_timeout == 10

\* bytes read by one stdout.read()
ReadSize == 4096

\* max_bytes of get_new_serial_output
max_bytes == 8192

\* truncation of "raw" and of "serial_output" in the results of GDBChat
RawLimit == 2000

SerialLimit == 4000

SerialNewLimit == 8000

SerialAllLimit == 16000

\* output[:500] in the TimeoutError of GDBSession._wait_for_prompt
TimeoutOutputLimit == 500

\* truncate_output: max_lines, and int(max_lines * 0.4)
max_lines == 100

keep_lines == 40

\* timeout=None: the caller gave no timeout.  An optional argument is a
\* sequence of at most one value.
None == << >>

Some(v) == << v >>

(***************************************************************************)
(* Bounds of the model                                                     *)
(***************************************************************************)

\* commands issued in one session
MaxCmds == 2

\* calls of GDBSession.stop on one object
MaxStops == 2

\* writes of the emulator to the serial log
MaxSerialWrites == 1

\* lines on standard input of gdb_chat.py
MaxLines == 3

\* seconds the wall clock of the host advances
MaxSeconds == 2

\* controllers started on one host
MaxControllers == 3

\* bursts an emulator writes to its console log
MaxBursts == 2

\* A loop iteration of the scanner (select with a 0.1 s timeout, a read, the
\* checks) takes next to no time, or, when the process is held up, long:
\* seconds that pass during one iteration.
TimeSteps == {0, 300}

\* How many bytes a read finds in the pipe (a read returns at most ReadSize).
ChunkSizes == {24, ReadSize}

\* The emulator appends this many bytes to the serial log in one burst.
SerialBursts == {10000}

\* Commands the callers issue: a GDBChat over its standard input, a
\* GDBSession's caller through execute_command.
Commands(v) ==
    IF v = "chat" THEN {"continue", "show prompt"}
    ELSE {"show prompt", "print foo"}

\* The timeout argument of the dispatchers' callers: main() of gdb_chat.py
\* passes none, so the class default applies.
TimeoutArgs == {None}

(***************************************************************************)
(* The debugger, as seen through its pipes                                 *)
(***************************************************************************)

\* What gdb prints for a command: the text, and whether gdb then stays busy
\* (the target runs and no prompt comes back).
Responses(command) ==
    LET cmd == Lower(Strip(command)) IN
    IF cmd = "info registers" THEN
        { [text |-> "rax 0x1b 27\nrip 0xfff0 0xfff0\n(gdb) ", blocks |-> FALSE] }
    ELSE IF cmd \in {"continue", "c", "cont"} THEN
        { [text |-> "Continuing.\n\nBreakpoint 1, kmain () at m.rs:4\n(gdb) ", blocks |-> FALSE],
          [text |-> "Continuing.\n\nBreakpoint 2, log (m=\"(gdb)\") at l.rs:9\n(gdb) ", blocks |-> FALSE],
          [text |-> "Continuing.\n", blocks |-> TRUE] }
    ELSE IF cmd = "show prompt" THEN
        { [text |-> "Gdb's prompt is \"(gdb) \".\n(gdb) ", blocks |-> FALSE] }
    ELSE IF cmd = "print foo" THEN
        { [text |-> "No symbol \"foo\" in current context.\n(gdb) ", blocks |-> FALSE] }
    ELSE IF StartsWith(cmd, "target remote") THEN
        { [text |-> "Remote debugging using localhost:1234\n(gdb) ", blocks |-> FALSE],
          [text |-> "localhost:1234: Connection refused.\n(gdb) ", blocks |-> FALSE] }
    ELSE
        { [text |-> "(gdb) ", blocks |-> FALSE] }

\* Offset of the last character of the prompt that completes a response.
PromptEnd(text) == Len(RStrip(text))

(***************************************************************************)
(* State                                                                   *)
(***************************************************************************)

VARIABLES
    variant,           \* "chat": a GDBChat driven by main(); "session": a GDBSession
    pc,                \* where the controller is: new, sleep, scan, got, timedout, done, idle, exited
    caller,            \* the call in progress: none, start, execute, serial, serial-new
    startStep,         \* handshake commands start() has sent
    gdb_process,       \* the debugger child: none, running, killed, exited
    qemu_process,      \* the emulator child: none, running, killed, exited
    stream,            \* what gdb prints that the controller has not read yet
    gdbBlocked,        \* gdb runs the target and reads no further command
    promptEnds,        \* per command answered in stream: offset of the end of its prompt
    queued,            \* commands written that gdb will not answer with a prompt
    command,           \* the command of the call in progress
    timeout,           \* the deadline of the scanner, seconds after its start
    allow_breakpoint,  \* breakpoint detection of the scanner
    output,            \* the scanner's accumulator
    elapsed,           \* seconds since the scanner started
    last_output_time,  \* the scanner's idle timer
    scanEnd,           \* how the last scan ended: none, running, returned, timeout
    heartbeat,         \* the scanner wrote its idle diagnostic during this scan
    result,            \* what the last call returned
    serial_read_pos,   \* GDBChat.serial_read_pos
    serialExists,      \* the serial log file exists
    serialSize,        \* its size in bytes
    serialWrites,      \* bursts the emulator has written
    delivered,         \* byte ranges of the log returned by get_new_serial_output, in order
    section_addrs,     \* GDBChat.section_addrs
    command_count,     \* GDBSession.command_count
    files,             \* files of the session in SESSION_DIR
    ncmds,             \* commands issued
    timeout_arg,       \* the timeout argument of the last execute call
    stopCalls,         \* calls of stop()
    last_stop,         \* the last call of stop(): what it found and what it did
    elf_sections,      \* the section table of the kernel binary, as objdump -h lists it
    registry,          \* SESSION_DIR: per session id, its files and its metadata record
    procs,             \* the process table: what runs under each pid now
    argv,              \* the command line of the script that ran last
    stdin,             \* the lines on standard input of gdb_chat.py
    nread,             \* how many of them main() has read
    stdout,            \* the records main() has printed, in order
    clock,             \* the wall clock of the host, in seconds
    created,           \* the controllers started on the host, in order of their start
    disk               \* the files they keep under /tmp: per path, who wrote what is in it

vars == << variant, pc, caller, startStep, gdb_process, qemu_process, stream,
           gdbBlocked, promptEnds, queued, command, timeout, allow_breakpoint,
           output, elapsed, last_output_time, scanEnd, heartbeat,
           result, serial_read_pos, serialExists, serialSize, serialWrites,
           delivered, section_addrs, command_count, files, ncmds, timeout_arg,
           stopCalls, last_stop, elf_sections, registry, procs, argv,
           stdin, nread, stdout, clock, created, disk >>

\* Standard input and output of main() of gdb_chat.py
ioVars == << stdin, nread, stdout >>

\* The host that several controllers run on
hostVars == << clock, created, disk >>

\* What no method of a controller object changes: which controller it is,
\* the kernel binary, the sessions and processes of other invocations, and
\* the standard streams of the script, and the other controllers of the host.
fixedVars == << variant, elf_sections, registry, procs, argv, ioVars, hostVars >>

gdbVars == << stream, gdbBlocked, promptEnds, queued >>

scanVars == << command, timeout, allow_breakpoint, output, elapsed,
               last_output_time, scanEnd, heartbeat >>

serialVars == << serial_read_pos, serialExists, serialSize, serialWrites, delivered >>

procVars == << gdb_process, qemu_process >>

stopVars == << stopCalls, last_stop >>

NoResult == [kind |-> "none"]

\* A call of stop(): the children as poll() found them and as the call left
\* them, the "quit" lines it wrote, the signals it sent (terminate and
\* kill), whether it raised.
NoStop ==
    [found_gdb |-> "none", found_qemu |-> "none", gdb |-> "none", qemu |-> "none",
     quits |-> 0, signals |-> 0, raised |-> FALSE]

\* The call raised instead of returning.
Raised(exc) == [kind |-> "raised", exception |-> exc]

\* Popen.poll() is None: the child has not terminated (a child that was sent
\* SIGKILL terminates a little later).
Alive(p) == p \in {"running", "killed"}

\* What poll() finds: a child that was alive at the last look may have
\* terminated since.
Poll(p) == IF Alive(p) THEN {p, "exited"} ELSE {p}

\* Commands in flight: written, and their completing prompt not yet read.
InFlight == Len(promptEnds) + queued

(***************************************************************************)
(* The debugger's side of the pipes                                        *)
(***************************************************************************)

\* The debugger's pipes as one value.
Gdb == [stream |-> stream, blocked |-> gdbBlocked, ends |-> promptEnds, queued |-> queued]

SetGdb(g) ==
    /\ stream' = g.stream
    /\ gdbBlocked' = g.blocked
    /\ promptEnds' = g.ends
    /\ queued' = g.queued

\* gdb_process.stdin.write(command + "\n"): a live, idle gdb answers with r;
\* a gdb that is busy, or dying, leaves the line unanswered.
GdbAfterWrite(g, r, live) ==
    IF live /\ ~g.blocked
    THEN [stream |-> g.stream \o r.text,
          blocked |-> r.blocks,
          ends |-> IF r.blocks THEN g.ends
                   ELSE Append(g.ends, Len(g.stream) + PromptEnd(r.text)),
          queued |-> IF r.blocks THEN g.queued + 1 ELSE g.queued]
    ELSE [g EXCEPT !.queued = @ + 1]

\* The controller read n bytes of the stream.
GdbAfterRead(g, n) ==
    [g EXCEPT !.stream = Drop(g.stream, n),
              !.ends = SelectSeq([i \in 1..Len(g.ends) |-> g.ends[i] - n],
                                 LAMBDA x : x > 0)]

(***************************************************************************)
(* Pure parts of the dispatchers                                           *)
(***************************************************************************)

\* execute without the lower(): the classes are matched as typed
ExecutePolicyCaseSensitive(cmd, t) ==
    LET cmd_lower == Strip(cmd) IN
    IF t = None
    THEN IF cmd_lower \in {"continue", "c", "cont"}
         THEN [timeout |-> ContinueTimeout, allow_breakpoint |-> TRUE]
         ELSE IF StartsWith(cmd_lower, "run")
         THEN [timeout |-> RunTimeout, allow_breakpoint |-> TRUE]
         ELSE [timeout |-> DefaultTimeout, allow_breakpoint |-> FALSE]
    ELSE [timeout |-> t[1], allow_breakpoint |-> FALSE]

\* GDBChat.execute: the deadline and the breakpoint detection of a command
ExecutePolicy(cmd, t) ==
    LET cmd_lower == Lower(Strip(cmd)) IN
    IF t = None
    THEN IF cmd_lower \in {"continue", "c", "cont"}
         THEN [timeout |-> ContinueTimeout, allow_breakpoint |-> TRUE]
         ELSE IF StartsWith(cmd_lower, "run")
         THEN [timeout |-> RunTimeout, allow_breakpoint |-> TRUE]
         ELSE [timeout |-> DefaultTimeout, allow_breakpoint |-> FALSE]
    ELSE [timeout |-> t[1], allow_breakpoint |-> FALSE]

\* GDBSession.execute_command(command, timeout=30)
ExecuteCommandTimeoutOf(t) == IF t = None THEN DefaultTimeout ELSE t[1]

\* a scanner whose prompt check is skipped while it looks for a breakpoint
ChatTerminalPlainOnly(out, bp) == ~bp /\ EndsWith(RStrip(out), GDB_PROMPT)

\* GDBChat._wait_for_prompt: the checks after a chunk was appended
ChatTerminal(out, bp) ==
    \/ /\ bp
       /\ (Contains(out, "Breakpoint") \/ Contains(out, "hit Breakpoint"))
       /\ Contains(out, GDB_PROMPT)
    \/ EndsWith(RStrip(out), GDB_PROMPT)

\* GDBSession._wait_for_prompt: the check after a chunk was appended
SessionTerminal(out) == Contains(out, GDB_PROMPT)

\* a loop condition that admits the iteration starting at the deadline
AtOrBeforeDeadline(now, deadline) == now <= deadline

\* The loop condition of both scanners: time.time() < deadline
BeforeDeadline(now, deadline) == now < deadline

\* The lines both dispatchers keep of the raw text, joined and stripped
CleanOutput(raw, cmd) ==
    Strip(Join(SelectSeq(Split(raw, "\n"),
                         LAMBDA l : /\ Strip(l) # ""
                                    /\ Strip(l) # GDB_PROMPT
                                    /\ ~Contains(l, cmd)),
               "\n"))

\* GDBChat._parse: what it returns, with the Python type of the value (the
\* type shows in the JSON record: an object, an array, a string)
GDBChat_parse_typed(cmd, out) ==
    LET c == Strip(Lower(cmd)) IN
    IF StartsWith(c, "info reg")
    THEN [type |-> "dict", value |-> GDBChat_parse_registers(out)]
    ELSE IF StartsWith(c, "bt") \/ StartsWith(c, "backtrace")
    THEN [type |-> "list", value |-> GDBChat_parse_backtrace(out)]
    ELSE [type |-> "str", value |-> out]

\* GDBChat._parse
GDBChat_parse(cmd, out) == GDBChat_parse_typed(cmd, out).value

\* GDBSession._parse_output: what it returns, with the Python type of the
\* value
parse_output_typed(cmd, out) ==
    LET cmd_lower == Strip(Lower(cmd)) IN
    IF StartsWith(cmd_lower, "info reg")
    THEN [type |-> "dict", value |-> parse_registers(out)]
    ELSE IF StartsWith(cmd_lower, "bt") \/ StartsWith(cmd_lower, "backtrace")
    THEN [type |-> "list", value |-> parse_backtrace(out)]
    ELSE IF StartsWith(cmd_lower, "x/")
    THEN [type |-> "list", value |-> parse_memory(out)]
    ELSE [type |-> "str", value |-> out]

\* GDBSession._parse_output
parse_output(cmd, out) == parse_output_typed(cmd, out).value

\* gdb_parser.truncate_output
truncate_output(text) ==
    LET lines == Split(text, "\n")
        omitted == Len(lines) - keep_lines - keep_lines
    IN  IF text = "" THEN text
        ELSE IF Len(lines) <= max_lines THEN text
        ELSE Join(SubSeq(lines, 1, keep_lines), "\n")
             \o "\n\n... [" \o ToString(omitted) \o " lines omitted] ...\n\n"
             \o Join(SubSeq(lines, Len(lines) - keep_lines + 1, Len(lines)), "\n")

\* "Cannot" in output or "No symbol" in output
IsGdbError(out) == Contains(out, "Cannot") \/ Contains(out, "No symbol")

(***************************************************************************)
(* The serial log.  Its text is identified by byte ranges [from, to) of    *)
(* the file; the log is ASCII, so bytes and characters coincide.           *)
(***************************************************************************)

NoText == [from |-> 0, to |-> 0]

IsEmpty(text) == text.to <= text.from

\* text[:limit]
Truncate(text, limit) ==
    IF IsEmpty(text) THEN NoText
    ELSE [from |-> text.from, to |-> Min(text.to, text.from + limit)]

\* a cursor advanced by the size asked for, not by the bytes read
get_new_serial_output_by_request(exists, size, pos) ==
    IF ~exists THEN [text |-> NoText, pos |-> pos]
    ELSE IF size <= pos THEN [text |-> NoText, pos |-> pos]
    ELSE [text |-> [from |-> pos, to |-> pos + max_bytes], pos |-> pos + max_bytes]

\* GDBChat.get_new_serial_output: the text returned and the new read cursor
get_new_serial_output(exists, size, pos) ==
    IF ~exists THEN [text |-> NoText, pos |-> pos]
    ELSE IF size <= pos THEN [text |-> NoText, pos |-> pos]
    ELSE [text |-> [from |-> pos, to |-> pos + Min(max_bytes, size - pos)],
          pos |-> pos + Min(max_bytes, size - pos)]

\* GDBChat.get_all_serial_output
get_all_serial_output(exists, size) ==
    IF ~exists THEN NoText ELSE [from |-> 0, to |-> size]

\* The effect of one call of get_new_serial_output on the session.
ReadNewSerial ==
    LET r == get_new_serial_output(serialExists, serialSize, serial_read_pos) IN
    /\ serial_read_pos' = r.pos
    /\ delivered' = IF IsEmpty(r.text) THEN delivered ELSE Append(delivered, r.text)
    /\ UNCHANGED << serialExists, serialSize, serialWrites >>

NewSerialText == get_new_serial_output(serialExists, serialSize, serial_read_pos).text

\* result["serial_output"] = serial_output[:4000], when there is any
WithSerial(r, text) ==
    IF IsEmpty(text) THEN r ELSE r @@ [serial_output |-> Truncate(text, SerialLimit)]

(***************************************************************************)
(* Results of GDBChat.execute                                              *)
(***************************************************************************)

ExecuteNotRunning(cmd) ==
    [success |-> FALSE, error |-> "GDB not running", command |-> cmd]

ExecuteSuccess(cmd, cleaned, ms, serial) ==
    WithSerial([success |-> TRUE, command |-> cmd,
                output |-> GDBChat_parse(cmd, cleaned),
                raw |-> Take(cleaned, RawLimit), time_ms |-> ms], serial)

\* a timeout result built without the serial text
ExecuteTimedOutBare(cmd, serial) ==
    [success |-> FALSE, error |-> "timeout", command |-> cmd]

\* execute, "except TimeoutError": the result
ExecuteTimedOut(cmd, serial) ==
    WithSerial([success |-> FALSE, error |-> "timeout", command |-> cmd], serial)

ExecuteFailed(cmd, exc, serial) ==
    WithSerial([success |-> FALSE, error |-> exc, command |-> cmd], serial)

(***************************************************************************)
(* Results of GDBSession.execute_command                                   *)
(***************************************************************************)

\* an error result that also carries the text as output
CommandGdbErrorWithOutput(cmd, cleaned, ms) ==
    [command |-> cmd, success |-> FALSE, error |-> cleaned, output |-> cleaned,
     error_type |-> "gdb_error", execution_time_ms |-> ms]

\* execute_command: "Cannot" or "No symbol" in the output
CommandGdbError(cmd, cleaned, ms) ==
    [command |-> cmd, success |-> FALSE, error |-> cleaned,
     error_type |-> "gdb_error", execution_time_ms |-> ms]

CommandSuccess(cmd, cleaned, ms) ==
    [command |-> cmd, success |-> TRUE, output |-> parse_output(cmd, cleaned),
     raw |-> truncate_output(cleaned), execution_time_ms |-> ms]

CommandResult(cmd, cleaned, ms) ==
    IF IsGdbError(cleaned) THEN CommandGdbError(cmd, cleaned, ms)
    ELSE CommandSuccess(cmd, cleaned, ms)

\* str(TimeoutError) of GDBSession._wait_for_prompt
TimeoutMessage(out) ==
    "Timeout waiting for GDB prompt. Output: " \o Take(out, TimeoutOutputLimit)

CommandTimedOut(cmd, out) ==
    [command |-> cmd, success |-> FALSE, error |-> TimeoutMessage(out),
     error_type |-> "timeout"]

CommandFailed(cmd, exc) ==
    [command |-> cmd, success |-> FALSE, error |-> exc, error_type |-> "unknown"]

(***************************************************************************)
(* Symbol loading.  Addresses exceed 32 bits, so an address is the text of *)
(* its hexadecimal digits (no leading zeros) and addition works on digits. *)
(***************************************************************************)

\* KERNEL_BASE = 0x10000000000
KERNEL_BASE == "10000000000"

\* str(self.kernel_binary)
kernel_binary == "kernel"

RECURSIVE AddHexCarry(_, _, _)
AddHexCarry(a, b, carry) ==
    IF Len(a) = 0 /\ Len(b) = 0 THEN (IF carry = 0 THEN "" ELSE "1")
    ELSE LET da == IF Len(a) = 0 THEN 0 ELSE HexValue(Char(a, Len(a)))
             db == IF Len(b) = 0 THEN 0 ELSE HexValue(Char(b, Len(b)))
             sum == da + db + carry
         IN  AddHexCarry(SubSeq(a, 1, Len(a) - 1), SubSeq(b, 1, Len(b) - 1), sum \div 16)
             \o Char(HexChars, (sum % 16) + 1)

\* hex(a + b) without the "0x"
AddHex(a, b) == AddHexCarry(a, b, 0)

\* What _parse_elf_sections returns: objdump's VMA of the sections it lists.
\* A kernel without symbols, and one whose .data lies above 4 GiB.
ElfSectionResults ==
    { EmptyDict, (".text" :> "1000") @@ (".data" :> "fff22a50") }

RECURSIVE SectionOptions(_, _)
\* the " -s name addr" parts, for the names in order
SectionOptions(names, sections) ==
    IF Len(names) = 0 THEN ""
    ELSE (IF names[1] \in DOMAIN sections
          THEN " -s " \o names[1] \o " 0x" \o AddHex(KERNEL_BASE, sections[names[1]])
          ELSE "")
         \o SectionOptions(Tail(names), sections)

\* the command with the link-time address of .text
SymbolCommandAtLinkAddress(sections) ==
    IF ".text" \notin DOMAIN sections THEN << >>
    ELSE << "add-symbol-file " \o kernel_binary \o " 0x" \o sections[".text"]
            \o SectionOptions(<< ".rodata", ".data", ".bss" >>, sections) >>

\* GDBChat._load_symbols_at_runtime_addr: the command it sends, << >> when
\* it sends none
SymbolCommand(sections) ==
    IF ".text" \notin DOMAIN sections THEN << >>
    ELSE << "add-symbol-file " \o kernel_binary \o " 0x"
            \o AddHex(KERNEL_BASE, sections[".text"])
            \o SectionOptions(<< ".rodata", ".data", ".bss" >>, sections) >>

\* The handshake of start(), after the first prompt
Handshake ==
    << "set pagination off", "set confirm off", "target remote localhost:1234" >>

(***************************************************************************)
(* The session registry: SESSION_DIR and the processes its records name    *)
(***************************************************************************)

\* The session ids of the directory.
SessionIds == {"gdb_a", "gdb_b"}

\* The pids of the children the sessions spawned.  What runs under a pid
\* is the child ("child"), an unrelated process of the same user ("other"),
\* an unrelated process of another user ("foreign"), or nothing ("gone").
Pids == {101, 102, 201, 202}

\* The record GDBSession._save_metadata writes into <session_id>.json
Metadata(id) ==
    [session_id |-> id,
     gdb_pid |-> IF id = "gdb_a" THEN 101 ELSE 201,
     qemu_pid |-> IF id = "gdb_a" THEN 102 ELSE 202,
     mode |-> "uefi"]

\* The files <session_id>.* of a session: its metadata record, None without
\* the .json file, and its log files.
NoSession == [metadata |-> None, logs |-> {}]

\* What an invocation can find for one id: nothing; the log of a create that
\* failed; the record and the log of a create that succeeded.
SessionEntries(id) ==
    { NoSession,
      [metadata |-> None, logs |-> {"qemu.log"}],
      [metadata |-> Some(Metadata(id)), logs |-> {"qemu.log"}] }

\* os.kill(pid, 0) returns: the pid exists and the caller may signal it.
\* ProcessLookupError and PermissionError are both OSError.
Probe(table, pid) == table[pid] \in {"child", "other"}

(***************************************************************************)
(* Initial state: the controller object was constructed                    *)
(***************************************************************************)

Init ==
    /\ variant \in {"chat", "session"}
    /\ pc = "new"
    /\ caller = "none"
    /\ startStep = 0
    /\ gdb_process = "none"
    /\ qemu_process = "none"
    /\ stream = ""
    /\ gdbBlocked = FALSE
    /\ promptEnds = << >>
    /\ queued = 0
    /\ command = ""
    /\ timeout = 0
    /\ allow_breakpoint = FALSE
    /\ output = ""
    /\ elapsed = 0
    /\ last_output_time = 0
    /\ scanEnd = "none"
    /\ heartbeat = FALSE
    /\ result = NoResult
    /\ serial_read_pos = 0
    /\ serialExists \in (IF variant = "chat" THEN BOOLEAN ELSE {FALSE})
    /\ serialSize \in (IF serialExists THEN SerialBursts ELSE {0})
    /\ serialWrites = 0
    /\ delivered = << >>
    /\ section_addrs = EmptyDict
    /\ command_count = 0
    /\ files = {}
    /\ ncmds = 0
    /\ timeout_arg = None
    /\ stopCalls = 0
    /\ last_stop = NoStop
    /\ elf_sections \in (IF variant = "chat" THEN ElfSectionResults ELSE {EmptyDict})
    /\ registry = [id \in SessionIds |-> NoSession]
    /\ procs = [p \in Pids |-> "gone"]
    /\ argv = [script |-> "none"]
    /\ stdin = << >>
    /\ nread = 0
    /\ stdout = << >>
    /\ clock = 0
    /\ created = << >>
    /\ disk = << >>

\* The call has returned: its arguments and the scanner's locals are gone.
Returned ==
    /\ command' = ""
    /\ timeout' = 0
    /\ allow_breakpoint' = FALSE
    /\ output' = ""
    /\ elapsed' = 0
    /\ last_output_time' = 0
    /\ scanEnd' = "none"
    /\ heartbeat' = FALSE

\* _wait_for_prompt starts: output = "", deadline = now + timeout
BeginScan(cmd, t, bp) ==
    /\ command' = cmd
    /\ timeout' = t
    /\ allow_breakpoint' = bp
    /\ output' = ""
    /\ elapsed' = 0
    /\ last_output_time' = 0
    /\ scanEnd' = "running"
    /\ heartbeat' = FALSE
    /\ pc' = "scan"

(***************************************************************************)
(* Teardown                                                                *)
(***************************************************************************)

\* The debugger half of GDBChat.stop.  A live gdb is written "quit" and
\* waited for; it exits in time, or the wait times out and it is killed, or
\* the write raises because gdb is already gone, and kill() finds it dead.
ChatStopGdb(p) ==
    IF ~Alive(p) THEN { [proc |-> p, quits |-> 0, signals |-> 0] }
    ELSE { [proc |-> "exited", quits |-> 1, signals |-> 0],
           [proc |-> "killed", quits |-> 1, signals |-> 1],
           [proc |-> "exited", quits |-> 0, signals |-> 0] }

\* The emulator half of both stop methods: terminate(), a bounded wait, and
\* kill() when the wait times out.
StopQemu(p) ==
    IF ~Alive(p) THEN { [proc |-> p, signals |-> 0] }
    ELSE { [proc |-> "exited", signals |-> 1],
           [proc |-> "killed", signals |-> 2] }

\* The debugger half of GDBSession.stop(force).  The write of "quit" is not
\* guarded: when it raises, stop() raises after its cleanup.
SessionStopGdb(p, force) ==
    IF ~Alive(p) THEN { [proc |-> p, quits |-> 0, signals |-> 0, raised |-> FALSE] }
    ELSE IF force THEN { [proc |-> "killed", quits |-> 0, signals |-> 1, raised |-> FALSE] }
    ELSE { [proc |-> "exited", quits |-> 1, signals |-> 0, raised |-> FALSE],
           [proc |-> "killed", quits |-> 1, signals |-> 1, raised |-> FALSE],
           [proc |-> "exited", quits |-> 0, signals |-> 0, raised |-> TRUE] }

\* GDBChat.stop, when poll() finds the children in states g and q
ChatStop(g, q) ==
    { [found_gdb |-> g, found_qemu |-> q, gdb |-> a.proc, qemu |-> b.proc,
       quits |-> a.quits, signals |-> a.signals + b.signals, raised |-> FALSE] :
      a \in ChatStopGdb(g), b \in StopQemu(q) }

\* GDBSession.stop(force), when poll() finds the children in states g and
\* q: when the write of "quit" raises, the emulator is not reached.
SessionStop(g, q, force) ==
    { [found_gdb |-> g, found_qemu |-> q, gdb |-> a.proc,
       qemu |-> IF a.raised THEN q ELSE b.proc, quits |-> a.quits,
       signals |-> a.signals + (IF a.raised THEN 0 ELSE b.signals),
       raised |-> a.raised] :
      a \in SessionStopGdb(g, force), b \in StopQemu(q) }

\* One call of GDBChat.stop on children last seen in states g and q
ChatStopCall(g, q) == UNION { ChatStop(fg, fq) : fg \in Poll(g), fq \in Poll(q) }

\* stop() followed by stop()
ChatStopTwice(g, q) == UNION { ChatStopCall(first.gdb, first.qemu) : first \in ChatStopCall(g, q) }

\* One call of GDBSession.stop(force)
SessionStopCall(g, q, force) ==
    UNION { SessionStop(fg, fq, force) : fg \in Poll(g), fq \in Poll(q) }

\* The bookkeeping of stop() with the outcome o.
Stopped(o, calls) ==
    /\ gdb_process' = o.gdb
    /\ qemu_process' = o.qemu
    /\ stopCalls' = stopCalls + calls
    /\ last_stop' = o

\* GDBSession._cleanup: every file of the session is removed
cleanup(fs) == {}

\* the dict GDBSession.stop returns (the duration is wall-clock time)
StopResult(count) == [status |-> "terminated", total_commands |-> count]

(***************************************************************************)
(* The environment: the serial log                                         *)
(***************************************************************************)

\* The emulator of a GDBChat appends a burst to the serial log (-serial
\* file:...), creating the file when it is not there.  The controller looks
\* at the log only between waits, so a burst written during a wait is taken
\* as written when the wait has ended.
QemuWrites ==
    /\ variant = "chat"
    /\ pc \in {"got", "timedout", "idle"}
    /\ qemu_process = "running"
    /\ serialWrites < MaxSerialWrites
    /\ \E n \in SerialBursts : serialSize' = serialSize + n
    /\ serialExists' = TRUE
    /\ serialWrites' = serialWrites + 1
    /\ UNCHANGED << serial_read_pos, delivered >>
    /\ UNCHANGED << fixedVars, pc, caller, startStep, result, section_addrs,
                    command_count, files, ncmds, timeout_arg >>
    /\ UNCHANGED << gdbVars, scanVars, procVars, stopVars >>

(***************************************************************************)
(* start()                                                                 *)
(***************************************************************************)

\* start(), up to the sleep: GDBChat removes the old serial log and resets
\* its cursor; the emulator is spawned (GDBSession opens its log file).
StartQemu ==
    /\ pc = "new"
    /\ pc' = "sleep"
    /\ caller' = "start"
    /\ qemu_process' = "running"
    /\ IF variant = "chat"
       THEN /\ serialExists' = FALSE
            /\ serialSize' = 0
            /\ serial_read_pos' = 0
            /\ UNCHANGED << serialWrites, delivered, files >>
       ELSE /\ files' = files \cup {"qemu.log"}
            /\ UNCHANGED serialVars
    /\ UNCHANGED << fixedVars, startStep, gdb_process, result,
                    section_addrs, command_count, ncmds, timeout_arg >>
    /\ UNCHANGED << gdbVars, scanVars, stopVars >>

\* what GDBChat.start returns, and what GDBSession.start raises, when the
\* emulator has exited during the sleep
QemuFailed(v) ==
    IF v = "chat" THEN [success |-> FALSE, error |-> "QEMU failed to start"]
    ELSE Raised("RuntimeError")

\* start(), after the sleep: the emulator is polled; gdb is spawned and
\* start() waits for its first prompt without polling it.  A gdb that
\* exits right after the spawn prints no prompt.
StartGdb ==
    /\ pc = "sleep"
    /\ \E q \in Poll(qemu_process) :
       /\ qemu_process' = q
       /\ IF ~Alive(q)
          THEN /\ pc' = "exited"
               /\ result' = QemuFailed(variant)
               /\ UNCHANGED << gdb_process, caller, startStep >>
               /\ UNCHANGED << gdbVars, scanVars >>
          ELSE /\ \E g \in {"running", "exited"} :
                    /\ gdb_process' = g
                    /\ SetGdb(IF Alive(g)
                              THEN GdbAfterWrite(Gdb, [text |-> "(gdb) ", blocks |-> FALSE], TRUE)
                              ELSE Gdb)
               /\ BeginScan("", StartTimeout, FALSE)
               /\ caller' = "start"
               /\ startStep' = 0
               /\ result' = NoResult
    /\ UNCHANGED << fixedVars, section_addrs, command_count, files, ncmds, timeout_arg >>
    /\ UNCHANGED << serialVars, stopVars >>

(***************************************************************************)
(* The scanner: _wait_for_prompt                                           *)
(***************************************************************************)

\* what one read can deliver: nothing (not ready, end of file, a read error)
\* or a prefix of what gdb has printed, at most ReadSize bytes
Reads == {0} \cup { Min(Min(k, ReadSize), Len(stream)) : k \in ChunkSizes }

Accum(n) == output \o Take(stream, n)

\* the iteration that read n bytes returns
Terminal(n) ==
    /\ n > 0
    /\ IF variant = "chat" THEN ChatTerminal(Accum(n), allow_breakpoint)
       ELSE SessionTerminal(Accum(n))

\* an idle timer that runs whether or not a breakpoint is waited for
IdleFiresAlways(bp, now, last) == (now - last) > idle_timeout

\* GDBChat: "no output for idle_timeout seconds", checked at time now
IdleFires(bp, now, last) == bp /\ (now - last) > idle_timeout

\* One iteration of the loop that began before the deadline, took d seconds
\* and read n bytes: the accumulator, the clock and the idle timer (the
\* idle check is not reached by an iteration that returns).
ScanAdvance(d, n, returns) ==
    LET now == elapsed + d
        last == IF n > 0 /\ variant = "chat" THEN now ELSE last_output_time
        idle == variant = "chat" /\ ~returns /\ IdleFires(allow_breakpoint, now, last)
    IN  /\ output' = Accum(n)
        /\ elapsed' = now
        /\ last_output_time' = IF idle THEN now ELSE last
        /\ heartbeat' = (heartbeat \/ idle)
        /\ UNCHANGED << command, timeout, allow_breakpoint >>

\* An iteration that does not return.
ScanContinueIn(n, steps) ==
    /\ pc = "scan"
    /\ BeforeDeadline(elapsed, timeout)
    /\ ~Terminal(n)
    /\ \E d \in steps : ScanAdvance(d, n, FALSE)
    /\ SetGdb(GdbAfterRead(Gdb, n))
    /\ UNCHANGED << pc, scanEnd >>
    /\ UNCHANGED << fixedVars, caller, startStep, result, section_addrs,
                    command_count, files, ncmds, timeout_arg >>
    /\ UNCHANGED << procVars, serialVars, stopVars >>

ScanContinue(n) == ScanContinueIn(n, TimeSteps)

\* The iteration that read n bytes returns the accumulator.
ScanReturn(n) ==
    /\ pc = "scan"
    /\ BeforeDeadline(elapsed, timeout)
    /\ Terminal(n)
    /\ \E d \in TimeSteps : ScanAdvance(d, n, TRUE)
    /\ SetGdb(GdbAfterRead(Gdb, n))
    /\ pc' = "got"
    /\ scanEnd' = "returned"
    /\ UNCHANGED << fixedVars, caller, startStep, result, section_addrs,
                    command_count, files, ncmds, timeout_arg >>
    /\ UNCHANGED << procVars, serialVars, stopVars >>

\* The loop condition fails: raise TimeoutError.
ScanTimeout ==
    /\ pc = "scan"
    /\ ~BeforeDeadline(elapsed, timeout)
    /\ pc' = "timedout"
    /\ scanEnd' = "timeout"
    /\ UNCHANGED << command, timeout, allow_breakpoint, output, elapsed,
                    last_output_time, heartbeat >>
    /\ UNCHANGED << fixedVars, caller, startStep, result, section_addrs,
                    command_count, files, ncmds, timeout_arg >>
    /\ UNCHANGED << gdbVars, procVars, serialVars, stopVars >>

(***************************************************************************)
(* start(), continued after each wait                                      *)
(***************************************************************************)

\* the exception a write to gdb's stdin raises when gdb is gone
BrokenPipe == "[Errno 32] Broken pipe"

\* _send_raw / _send_command of one line of start(): GDBSession polls gdb
\* first, GDBChat writes at once.
StartWrite(cmd) ==
    \E g \in Poll(gdb_process) :
      /\ gdb_process' = g
      /\ IF ~Alive(g)
         THEN /\ pc' = "exited"
              /\ result' = IF variant = "session" THEN Raised("RuntimeError")
                           ELSE Raised("BrokenPipeError")
              /\ Returned
              /\ UNCHANGED << gdbVars, startStep >>
         ELSE /\ \E r \in Responses(cmd) :
                     SetGdb(GdbAfterWrite(Gdb, r, g = "running"))
              /\ BeginScan(cmd, StartTimeout, FALSE)
              /\ startStep' = startStep + 1
              /\ UNCHANGED result

\* The first prompt, or the answer to a configuration line, arrived: send
\* the next line of the handshake.
StartSend ==
    /\ pc = "got"
    /\ caller = "start"
    /\ startStep < Len(Handshake)
    /\ StartWrite(Handshake[startStep + 1])
    /\ UNCHANGED << fixedVars, caller, qemu_process, section_addrs, command_count,
                    files, ncmds, timeout_arg >>
    /\ UNCHANGED << serialVars, stopVars >>

\* the check of the answer to "target remote"
ConnectFailed(v, out) ==
    IF v = "chat" THEN Contains(out, "Connection refused")
    ELSE Contains(out, "Connection refused") \/ Contains(out, "Error")

\* what GDBChat.start returns on success
ChatStarted(sections, serial) ==
    WithSerial([success |-> TRUE, status |-> "connected",
                sections |-> [k \in DOMAIN sections |-> "0x" \o sections[k]]],
               serial)

\* what GDBSession.start returns
SessionStarted == [status |-> "connected", mode |-> "uefi"]

\* GDBChat.start, from get_new_serial_output() to the return
ChatStartFinish(sections) ==
    /\ ReadNewSerial
    /\ result' = ChatStarted(sections, NewSerialText)
    /\ Returned
    /\ pc' = "done"

\* The answer to "target remote" arrived.  GDBSession saves its metadata
\* and returns; GDBChat reads the ELF sections and loads the symbols.
StartConnected ==
    /\ pc = "got"
    /\ caller = "start"
    /\ startStep = Len(Handshake)
    /\ IF ConnectFailed(variant, output)
       THEN /\ pc' = "exited"
            /\ result' = IF variant = "chat"
                         THEN [success |-> FALSE, error |-> "Cannot connect to QEMU"]
                         ELSE Raised("ConnectionError")
            /\ Returned
            /\ UNCHANGED << gdbVars, serialVars, startStep, section_addrs,
                            files, gdb_process >>
       ELSE IF variant = "session"
       THEN /\ files' = files \cup {"json"}
            /\ result' = SessionStarted
            /\ pc' = "done"
            /\ Returned
            /\ UNCHANGED << gdbVars, serialVars, startStep, section_addrs,
                            gdb_process >>
       ELSE LET sections == elf_sections
            IN IF SymbolCommand(sections) = << >>
              THEN /\ ChatStartFinish(section_addrs)
                   /\ UNCHANGED << gdbVars, startStep, section_addrs, files,
                                   gdb_process >>
              ELSE /\ section_addrs' = sections
                   /\ StartWrite(SymbolCommand(sections)[1])
                   /\ UNCHANGED << serialVars, files >>
    /\ UNCHANGED << fixedVars, caller, qemu_process, command_count, ncmds,
                    timeout_arg >>
    /\ UNCHANGED stopVars

\* GDBChat: the answer to add-symbol-file arrived.
StartSymbolsLoaded ==
    /\ pc = "got"
    /\ caller = "start"
    /\ startStep = Len(Handshake) + 1
    /\ ChatStartFinish(section_addrs)
    /\ UNCHANGED << fixedVars, caller, startStep, section_addrs, command_count,
                    files, ncmds, timeout_arg >>
    /\ UNCHANGED << gdbVars, procVars, stopVars >>

\* str(TimeoutError) of GDBChat._wait_for_prompt
ChatTimeoutMessage == "Timeout waiting for GDB prompt"

\* A wait of start() timed out: GDBChat catches the first one only.
StartTimedOut ==
    /\ pc = "timedout"
    /\ caller = "start"
    /\ pc' = "exited"
    /\ result' = IF variant = "chat" /\ startStep = 0
                 THEN [success |-> FALSE, error |-> ChatTimeoutMessage]
                 ELSE Raised("TimeoutError")
    /\ Returned
    /\ UNCHANGED << fixedVars, caller, startStep, section_addrs, command_count,
                    files, ncmds, timeout_arg >>
    /\ UNCHANGED << gdbVars, procVars, serialVars, stopVars >>

(***************************************************************************)
(* GDBChat.execute and GDBSession.execute_command                          *)
(***************************************************************************)

\* time.time() - start, as milliseconds
Millis(seconds) == seconds * 1000

\* execute(command, timeout) up to the wait: the poll of gdb, the policy,
\* the write.
Execute(cmd, t) ==
    /\ variant = "chat"
    /\ pc = "idle"
    /\ ncmds < MaxCmds
    /\ ncmds' = ncmds + 1
    /\ \E g \in Poll(gdb_process) :
       /\ gdb_process' = g
       /\ IF ~Alive(g)
          THEN /\ result' = ExecuteNotRunning(cmd)
               /\ pc' = "done"
               /\ caller' = "execute"
               /\ UNCHANGED timeout_arg
               /\ UNCHANGED << gdbVars, scanVars >>
          ELSE /\ \E r \in Responses(cmd) :
                      SetGdb(GdbAfterWrite(Gdb, r, g = "running"))
               /\ BeginScan(cmd, ExecutePolicy(cmd, t).timeout,
                            ExecutePolicy(cmd, t).allow_breakpoint)
               /\ caller' = "execute"
               /\ timeout_arg' = t
               /\ result' = NoResult
    /\ UNCHANGED << fixedVars, startStep, qemu_process, section_addrs,
                    command_count, files >>
    /\ UNCHANGED << serialVars, stopVars >>

\* execute_command(command, timeout) up to the wait
ExecuteCommand(cmd, t) ==
    /\ variant = "session"
    /\ pc = "idle"
    /\ ncmds < MaxCmds
    /\ ncmds' = ncmds + 1
    /\ \E g \in Poll(gdb_process) :
       /\ gdb_process' = g
       /\ IF ~Alive(g)
          THEN /\ result' = CommandFailed(cmd, "GDB process not running")
               /\ pc' = "done"
               /\ caller' = "execute"
               /\ UNCHANGED timeout_arg
               /\ UNCHANGED << gdbVars, scanVars >>
          ELSE /\ \E r \in Responses(cmd) :
                      SetGdb(GdbAfterWrite(Gdb, r, g = "running"))
               /\ BeginScan(cmd, ExecuteCommandTimeoutOf(t), FALSE)
               /\ caller' = "execute"
               /\ timeout_arg' = t
               /\ result' = NoResult
    /\ UNCHANGED << fixedVars, startStep, qemu_process, section_addrs,
                    command_count, files >>
    /\ UNCHANGED << serialVars, stopVars >>

\* gdb terminates between the poll and the write: the write raises, and the
\* dispatcher's "except Exception" builds the result.
WriteFails(cmd) ==
    /\ pc = "idle"
    /\ ncmds < MaxCmds
    /\ Alive(gdb_process)
    /\ gdb_process' = "exited"
    /\ ncmds' = ncmds + 1
    /\ IF variant = "chat"
       THEN /\ ReadNewSerial
            /\ result' = ExecuteFailed(cmd, BrokenPipe, NewSerialText)
       ELSE /\ result' = CommandFailed(cmd, BrokenPipe)
            /\ UNCHANGED serialVars
    /\ pc' = "done"
    /\ caller' = "execute"
    /\ UNCHANGED << fixedVars, startStep, qemu_process, section_addrs,
                    command_count, files, timeout_arg >>
    /\ UNCHANGED << gdbVars, scanVars, stopVars >>

\* execute, after _send_raw returned
ExecuteReturns ==
    /\ variant = "chat"
    /\ pc = "got"
    /\ caller = "execute"
    /\ ReadNewSerial
    /\ result' = ExecuteSuccess(command, CleanOutput(output, command),
                                Millis(elapsed), NewSerialText)
    /\ pc' = "done"
    /\ Returned
    /\ timeout_arg' = None
    /\ UNCHANGED << fixedVars, caller, startStep, section_addrs, command_count,
                    files, ncmds >>
    /\ UNCHANGED << gdbVars, procVars, stopVars >>

\* An "except TimeoutError" of execute that writes the command once more
ExecuteTimesOutResends ==
    /\ variant = "chat"
    /\ pc = "timedout"
    /\ caller = "execute"
    /\ ReadNewSerial
    /\ result' = ExecuteTimedOut(command, NewSerialText)
    /\ pc' = "done"
    /\ Returned
    /\ timeout_arg' = None
    /\ queued' = queued + 1
    /\ UNCHANGED << fixedVars, caller, startStep, section_addrs, command_count,
                    files, ncmds >>
    /\ UNCHANGED << stream, gdbBlocked, promptEnds, procVars, stopVars >>

\* execute, "except TimeoutError"
ExecuteTimesOut ==
    /\ variant = "chat"
    /\ pc = "timedout"
    /\ caller = "execute"
    /\ ReadNewSerial
    /\ result' = ExecuteTimedOut(command, NewSerialText)
    /\ pc' = "done"
    /\ Returned
    /\ timeout_arg' = None
    /\ UNCHANGED << fixedVars, caller, startStep, section_addrs, command_count,
                    files, ncmds >>
    /\ UNCHANGED << gdbVars, procVars, stopVars >>

\* execute_command, after _send_command returned
CommandReturns ==
    /\ variant = "session"
    /\ pc = "got"
    /\ caller = "execute"
    /\ command_count' = command_count + 1
    /\ result' = CommandResult(command, CleanOutput(output, command), Millis(elapsed))
    /\ pc' = "done"
    /\ Returned
    /\ timeout_arg' = None
    /\ UNCHANGED << fixedVars, caller, startStep, section_addrs, files, ncmds >>
    /\ UNCHANGED << gdbVars, procVars, serialVars, stopVars >>

\* execute_command, "except TimeoutError"
CommandTimesOut ==
    /\ variant = "session"
    /\ pc = "timedout"
    /\ caller = "execute"
    /\ result' = CommandTimedOut(command, output)
    /\ pc' = "done"
    /\ Returned
    /\ timeout_arg' = None
    /\ UNCHANGED << fixedVars, caller, startStep, section_addrs, command_count,
                    files, ncmds >>
    /\ UNCHANGED << gdbVars, procVars, serialVars, stopVars >>

(***************************************************************************)
(* main() of gdb_chat.py, and the callers of GDBSession.stop               *)
(***************************************************************************)

\* main() leaves: the GDBChat object and its ends of the pipes are gone.
\* What is left are the children and the serial log.
MainExits ==
    /\ pc' = "exited"
    /\ caller' = "none"
    /\ startStep' = 0
    /\ stream' = ""
    /\ gdbBlocked' = FALSE
    /\ promptEnds' = << >>
    /\ queued' = 0
    /\ Returned
    /\ timeout_arg' = None
    /\ section_addrs' = EmptyDict
    /\ UNCHANGED << fixedVars, command_count, files, ncmds >>

\* The call is over: main() has printed the record and reads the next
\* line; the caller of a GDBSession has taken the result.
Deliver ==
    /\ pc = "done"
    /\ pc' = "idle"
    /\ caller' = "none"
    /\ result' = NoResult
    /\ UNCHANGED << fixedVars, startStep, section_addrs, command_count, files,
                    ncmds, timeout_arg >>
    /\ UNCHANGED << gdbVars, scanVars, procVars, serialVars, stopVars >>

\* a "serial" line that moves the read cursor to the end of what it read
MainSerialMovesCursor ==
    /\ variant = "chat"
    /\ pc = "idle"
    /\ result' = [success |-> TRUE, command |-> "serial",
                  serial_output |-> Truncate(get_all_serial_output(serialExists, serialSize),
                                             SerialAllLimit)]
    /\ pc' = "done"
    /\ caller' = "serial"
    /\ serial_read_pos' = IF serialExists THEN serialSize ELSE serial_read_pos
    /\ UNCHANGED << fixedVars, startStep, section_addrs, command_count,
                    files, ncmds, timeout_arg >>
    /\ UNCHANGED << gdbVars, scanVars, procVars, stopVars, serialExists, serialSize,
                    serialWrites, delivered >>

\* the line "serial"
MainSerial ==
    /\ variant = "chat"
    /\ pc = "idle"
    /\ result' = [success |-> TRUE, command |-> "serial",
                  serial_output |-> Truncate(get_all_serial_output(serialExists, serialSize),
                                             SerialAllLimit)]
    /\ pc' = "done"
    /\ caller' = "serial"
    /\ UNCHANGED << fixedVars, startStep, section_addrs, command_count,
                    files, ncmds, timeout_arg >>
    /\ UNCHANGED << gdbVars, scanVars, procVars, serialVars, stopVars >>

\* the line "serial-new"
MainSerialNew ==
    /\ variant = "chat"
    /\ pc = "idle"
    /\ ReadNewSerial
    /\ result' = [success |-> TRUE, command |-> "serial-new",
                  serial_output |-> Truncate(NewSerialText, SerialNewLimit)]
    /\ pc' = "done"
    /\ caller' = "serial-new"
    /\ UNCHANGED << fixedVars, startStep, section_addrs, command_count,
                    files, ncmds, timeout_arg >>
    /\ UNCHANGED << gdbVars, scanVars, procVars, stopVars >>

\* the line "quit": stop(), the farewell, break, and "finally: chat.stop()"
MainQuit ==
    /\ variant = "chat"
    /\ pc = "idle"
    /\ \E o \in ChatStopTwice(gdb_process, qemu_process) : Stopped(o, 2)
    /\ result' = [success |-> TRUE, status |-> "terminated"]
    /\ MainExits
    /\ UNCHANGED serialVars

\* end of input: "finally: chat.stop()"
MainEOF ==
    /\ variant = "chat"
    /\ pc = "idle"
    /\ \E o \in ChatStopCall(gdb_process, qemu_process) : Stopped(o, 1)
    /\ MainExits
    /\ result' = NoResult
    /\ UNCHANGED serialVars

\* SIGINT: signal_handler runs stop() and exits, wherever main() is.  What
\* it does depends on the children only, not on how far a wait has got, so
\* the signal is taken before start(), during its sleep, or when a wait
\* begins; while main() waits for a line it does what the end of input does.
SigInt ==
    /\ variant = "chat"
    /\ \/ pc \in {"new", "sleep"}
       \/ pc = "scan" /\ output = "" /\ elapsed = 0
    /\ \E o \in ChatStopCall(gdb_process, qemu_process) : Stopped(o, 1)
    /\ MainExits
    /\ result' = NoResult
    /\ UNCHANGED serialVars

\* A caller of GDBSession.stop(force), on a session that is not inside
\* another call.
Stop(force) ==
    /\ variant = "session"
    /\ pc \in {"new", "idle", "exited"}
    /\ stopCalls < MaxStops
    /\ \E o \in SessionStopCall(gdb_process, qemu_process, force) :
         /\ Stopped(o, 1)
         /\ result' = IF o.raised THEN Raised("BrokenPipeError")
                      ELSE StopResult(command_count)
    /\ files' = cleanup(files)
    /\ pc' = "exited"
    /\ UNCHANGED << fixedVars, caller, startStep, section_addrs, command_count,
                    ncmds, timeout_arg >>
    /\ UNCHANGED << gdbVars, scanVars, serialVars >>

(***************************************************************************)
(* The session specification                                               *)
(***************************************************************************)

Next ==
    \/ StartQemu
    \/ StartGdb
    \/ \E n \in Reads : ScanContinue(n)
    \/ \E n \in Reads : ScanReturn(n)
    \/ ScanTimeout
    \/ StartSend
    \/ StartConnected
    \/ StartSymbolsLoaded
    \/ StartTimedOut
    \/ \E cmd \in Commands("chat"), t \in TimeoutArgs : Execute(cmd, t)
    \/ \E cmd \in Commands("session"), t \in TimeoutArgs : ExecuteCommand(cmd, t)
    \/ \E cmd \in Commands(variant) : WriteFails(cmd)
    \/ ExecuteReturns
    \/ ExecuteTimesOut
    \/ CommandReturns
    \/ CommandTimesOut
    \/ Deliver
    \/ MainSerial
    \/ MainSerialNew
    \/ MainQuit
    \/ MainEOF
    \/ SigInt
    \/ \E force \in BOOLEAN : Stop(force)
    \/ QemuWrites

Spec == Init /\ [][Next]_vars

(***************************************************************************)
(* Fairness: the scanner's clock.  Every iteration of the loop calls       *)
(* select with a 0.1 s timeout or finds the pipe ready and reads, and      *)
(* time.time() grows while the loop runs: the loop cannot iterate for ever *)
(* in no time, and a loop whose condition fails is left.                   *)
(***************************************************************************)

\* an iteration during which the clock advances
ScanTick == \E n \in Reads : ScanContinue(n) /\ elapsed' > elapsed

FairSpec == Spec /\ WF_vars(ScanTick) /\ WF_vars(ScanTimeout)

(***************************************************************************)
(* GDBChat.execute on its own: one call on a connected session, for many   *)
(* spellings of the command and many timeout arguments.                    *)
(***************************************************************************)

\* command texts: the classes of execute, in several spellings, and
\* neighbours of the classes
PolicyCommands ==
    { "continue", "c", "cont", " Continue ", "CONT\n", "C", "\tcontinue",
      "run", "Run -x", "RUN", "running", " rUn",
      "contin", "cc", "continue 2", "ru", "step", "info registers", "bt", "" }

\* timeout arguments: none, or a number of seconds
PolicyTimeouts == { None, Some(0), Some(5), Some(30), Some(300), Some(600) }

\* A GDBChat after a successful start() without symbols, waiting for a line.
PolicyInit ==
    /\ variant = "chat"
    /\ pc = "idle"
    /\ caller = "none"
    /\ startStep = Len(Handshake)
    /\ gdb_process = "running"
    /\ qemu_process = "running"
    /\ stream = ""
    /\ gdbBlocked = FALSE
    /\ promptEnds = << >>
    /\ queued = 0
    /\ command = ""
    /\ timeout = 0
    /\ allow_breakpoint = FALSE
    /\ output = ""
    /\ elapsed = 0
    /\ last_output_time = 0
    /\ scanEnd = "none"
    /\ heartbeat = FALSE
    /\ result = NoResult
    /\ serial_read_pos = 0
    /\ serialExists = FALSE
    /\ serialSize = 0
    /\ serialWrites = 0
    /\ delivered = << >>
    /\ section_addrs = EmptyDict
    /\ command_count = 0
    /\ files = {}
    /\ ncmds = 0
    /\ timeout_arg = None
    /\ stopCalls = 0
    /\ last_stop = NoStop
    /\ elf_sections = EmptyDict
    /\ registry = [id \in SessionIds |-> NoSession]
    /\ procs = [p \in Pids |-> "gone"]
    /\ argv = [script |-> "none"]
    /\ stdin = << >>
    /\ nread = 0
    /\ stdout = << >>
    /\ clock = 0
    /\ created = << >>
    /\ disk = << >>

PolicyNext == \E cmd \in PolicyCommands, t \in PolicyTimeouts : Execute(cmd, t)

SpecPolicy == PolicyInit /\ [][PolicyNext]_vars

(***************************************************************************)
(* The scripts that work on the registry: gdb_cmd.py, stop_session.py,     *)
(* list_sessions.py.  Each run is a process of its own that holds no       *)
(* controller object; it sees SESSION_DIR and the process table.           *)
(***************************************************************************)

\* GDBSession.load is called by gdb_cmd.py and stop_session.py and defined
\* nowhere: the call raises.
GDBSession_load(id) == "AttributeError"

\* load_session with the emulator probed only
load_session_qemu_only(reg, table, id) ==
    IF reg[id].metadata = None THEN "FileNotFoundError"
    ELSE LET metadata == reg[id].metadata[1]
         IN  IF ~Probe(table, metadata.qemu_pid) THEN "RuntimeError"
             ELSE GDBSession_load(id)

\* gdb_cmd.load_session: the exception it raises
load_session(reg, table, id) ==
    IF reg[id].metadata = None THEN "FileNotFoundError"
    ELSE LET metadata == reg[id].metadata[1]
         IN  IF ~Probe(table, metadata.gdb_pid) THEN "RuntimeError"
             ELSE IF ~Probe(table, metadata.qemu_pid) THEN "RuntimeError"
             ELSE GDBSession_load(id)

\* what main() of gdb_cmd.py prints for an exception of load_session
GdbCmdError(exc) ==
    [success |-> FALSE,
     error_type |-> IF exc = "FileNotFoundError" THEN "session_not_found"
                    ELSE IF exc = "RuntimeError" THEN "session_dead"
                    ELSE "execution_failed"]

\* gdb_cmd.py --session id --command ...: load_session raises on every
\* path, so no command is executed.
GdbCmd(id) ==
    /\ pc = "idle"
    /\ argv' = [script |-> "gdb_cmd", session |-> id]
    /\ result' = GdbCmdError(load_session(registry, procs, id))
    /\ UNCHANGED << variant, ioVars, hostVars, elf_sections, registry, procs >>
    /\ UNCHANGED << pc, caller, startStep, section_addrs, command_count, files,
                    ncmds, timeout_arg >>
    /\ UNCHANGED << gdbVars, scanVars, procVars, serialVars, stopVars >>

\* An entry that reports a child alive when either child is
SessionEntryEitherAlive(metadata, table) ==
    [session_id |-> metadata.session_id,
     gdb_pid |-> metadata.gdb_pid,
     qemu_pid |-> metadata.qemu_pid,
     gdb_alive |-> Probe(table, metadata.gdb_pid) \/ Probe(table, metadata.qemu_pid),
     qemu_alive |-> Probe(table, metadata.qemu_pid),
     mode |-> metadata.mode]

\* One entry of GDBSession.list_sessions
SessionEntry(metadata, table) ==
    [session_id |-> metadata.session_id,
     gdb_pid |-> metadata.gdb_pid,
     qemu_pid |-> metadata.qemu_pid,
     gdb_alive |-> Probe(table, metadata.gdb_pid),
     qemu_alive |-> Probe(table, metadata.qemu_pid),
     mode |-> metadata.mode]

RECURSIVE SessionsOf(_, _, _)
SessionsOf(ids, reg, table) ==
    IF Len(ids) = 0 THEN << >>
    ELSE (IF reg[ids[1]].metadata = None THEN << >>
          ELSE << SessionEntry(reg[ids[1]].metadata[1], table) >>)
         \o SessionsOf(Tail(ids), reg, table)

\* GDBSession.list_sessions(), with glob() listing the directory by name
list_sessions(reg, table) == SessionsOf(<< "gdb_a", "gdb_b" >>, reg, table)

RECURSIVE Cleaned(_, _)
\* list_sessions.py --cleanup: the directory without the files of the
\* listed sessions whose children are both dead
Cleaned(sessions, reg) ==
    IF Len(sessions) = 0 THEN reg
    ELSE LET session == sessions[1]
             rest == Cleaned(Tail(sessions), reg)
         IN  IF ~session.gdb_alive /\ ~session.qemu_alive
             THEN [rest EXCEPT ![session.session_id] = NoSession]
             ELSE rest

\* list_sessions.py [--cleanup]
ListSessions(do_cleanup) ==
    /\ pc = "idle"
    /\ argv' = [script |-> "list_sessions", cleanup |-> do_cleanup]
    /\ registry' = IF do_cleanup THEN Cleaned(list_sessions(registry, procs), registry)
                   ELSE registry
    /\ result' = [sessions |-> list_sessions(registry', procs)]
    /\ UNCHANGED << variant, ioVars, hostVars, elf_sections, procs >>
    /\ UNCHANGED << pc, caller, startStep, section_addrs, command_count, files,
                    ncmds, timeout_arg >>
    /\ UNCHANGED << gdbVars, scanVars, procVars, serialVars, stopVars >>

\* stop_session.force_stop_session on a session with a record: the
\* directory, the process table and the dict it returns.  os.kill(pid,
\* SIGKILL) ends whatever runs under the pid when the caller may signal it;
\* otherwise it raises OSError, which is ignored.
force_stop_session(reg, table, id) ==
    LET metadata == reg[id].metadata[1]
        gdb == IF Probe(table, metadata.gdb_pid) THEN {"gdb"} ELSE {}
        qemu == IF Probe(table, metadata.qemu_pid) THEN {"qemu"} ELSE {}
        Kill(t, pid) == IF Probe(t, pid) THEN [t EXCEPT ![pid] = "gone"] ELSE t
    IN  [registry |-> [reg EXCEPT ![id] = NoSession],
         procs |-> Kill(Kill(table, metadata.gdb_pid), metadata.qemu_pid),
         result |-> [session_id |-> id, status |-> "force_terminated",
                     killed |-> gdb \cup qemu, success |-> TRUE]]

\* stop_session.py --session id [--force].  Without a record
\* force_stop_session raises FileNotFoundError, and raises it again in the
\* handler that retries it.  Without --force, GDBSession.load raises.
StopSession(id, force) ==
    /\ pc = "idle"
    /\ argv' = [script |-> "stop_session", session |-> id, force |-> force]
    /\ IF force
       THEN IF registry[id].metadata = None
            THEN /\ result' = [success |-> FALSE, error_type |-> "session_not_found"]
                 /\ UNCHANGED << registry, procs >>
            ELSE LET done == force_stop_session(registry, procs, id)
                 IN  /\ registry' = done.registry
                     /\ procs' = done.procs
                     /\ result' = done.result
       ELSE /\ result' = [success |-> FALSE, error_type |-> "stop_failed",
                          error |-> GDBSession_load(id)]
            /\ UNCHANGED << registry, procs >>
    /\ UNCHANGED << variant, ioVars, hostVars, elf_sections >>
    /\ UNCHANGED << pc, caller, startStep, section_addrs, command_count, files,
                    ncmds, timeout_arg >>
    /\ UNCHANGED << gdbVars, scanVars, procVars, serialVars, stopVars >>

\* The environment: the process under a pid exits, or a free pid is given
\* to an unrelated process.
ProcessTableChanges(pid, state) ==
    /\ IF procs[pid] = "gone" THEN state \in {"other", "foreign"} ELSE state = "gone"
    /\ procs' = [procs EXCEPT ![pid] = state]
    /\ UNCHANGED << variant, ioVars, hostVars, elf_sections, registry, argv >>
    /\ UNCHANGED << pc, caller, startStep, result, section_addrs, command_count,
                    files, ncmds, timeout_arg >>
    /\ UNCHANGED << gdbVars, scanVars, procVars, serialVars, stopVars >>

\* The directory and the process table some earlier invocations left.
RegistryInit ==
    /\ variant = "session"
    /\ pc = "idle"
    /\ caller = "none"
    /\ startStep = 0
    /\ gdb_process = "none"
    /\ qemu_process = "none"
    /\ stream = ""
    /\ gdbBlocked = FALSE
    /\ promptEnds = << >>
    /\ queued = 0
    /\ command = ""
    /\ timeout = 0
    /\ allow_breakpoint = FALSE
    /\ output = ""
    /\ elapsed = 0
    /\ last_output_time = 0
    /\ scanEnd = "none"
    /\ heartbeat = FALSE
    /\ result = NoResult
    /\ serial_read_pos = 0
    /\ serialExists = FALSE
    /\ serialSize = 0
    /\ serialWrites = 0
    /\ delivered = << >>
    /\ section_addrs = EmptyDict
    /\ command_count = 0
    /\ files = {}
    /\ ncmds = 0
    /\ timeout_arg = None
    /\ stopCalls = 0
    /\ last_stop = NoStop
    /\ elf_sections = EmptyDict
    /\ registry \in { r \in [SessionIds -> UNION { SessionEntries(id) : id \in SessionIds }] :
                        \A id \in SessionIds : r[id] \in SessionEntries(id) }
    /\ procs \in [Pids -> {"child", "other", "foreign", "gone"}]
    /\ argv = [script |-> "none"]
    /\ stdin = << >>
    /\ nread = 0
    /\ stdout = << >>
    /\ clock = 0
    /\ created = << >>
    /\ disk = << >>

RegistryNext ==
    \/ \E id \in SessionIds : GdbCmd(id)
    \/ \E id \in SessionIds, force \in BOOLEAN : StopSession(id, force)
    \/ \E do_cleanup \in BOOLEAN : ListSessions(do_cleanup)
    \/ \E pid \in Pids, state \in {"other", "foreign", "gone"} :
          ProcessTableChanges(pid, state)

SpecRegistry == RegistryInit /\ [][RegistryNext]_vars

(***************************************************************************)
(* Symbol loading on its own: GDBChat.start from the answer to "target     *)
(* remote" on, for every section table objdump can report                  *)
(***************************************************************************)

\* Every table over some of the four sections, with section addresses
\* that are small, above 2^31, above 2^32.
SymbolInputs ==
    UNION { [names -> {"1000", "fff22a50", "7fff80000000"}] :
            names \in SUBSET {".text", ".rodata", ".data", ".bss"} }

SymbolsInit ==
    /\ variant = "chat"
    /\ pc = "got"
    /\ caller = "start"
    /\ startStep = Len(Handshake)
    /\ gdb_process = "running"
    /\ qemu_process = "running"
    /\ stream = ""
    /\ gdbBlocked = FALSE
    /\ promptEnds = << >>
    /\ queued = 0
    /\ command = Handshake[Len(Handshake)]
    /\ timeout = StartTimeout
    /\ allow_breakpoint = FALSE
    /\ output = "Remote debugging using localhost:1234\n(gdb) "
    /\ elapsed = 0
    /\ last_output_time = 0
    /\ scanEnd = "returned"
    /\ heartbeat = FALSE
    /\ result = NoResult
    /\ serial_read_pos = 0
    /\ serialExists = FALSE
    /\ serialSize = 0
    /\ serialWrites = 0
    /\ delivered = << >>
    /\ section_addrs = EmptyDict
    /\ command_count = 0
    /\ files = {}
    /\ ncmds = 0
    /\ timeout_arg = None
    /\ stopCalls = 0
    /\ last_stop = NoStop
    /\ elf_sections \in SymbolInputs
    /\ registry = [id \in SessionIds |-> NoSession]
    /\ procs = [p \in Pids |-> "gone"]
    /\ argv = [script |-> "none"]
    /\ stdin = << >>
    /\ nread = 0
    /\ stdout = << >>
    /\ clock = 0
    /\ created = << >>
    /\ disk = << >>

SymbolsNext ==
    \/ StartConnected
    \/ \E n \in Reads : ScanContinue(n)
    \/ \E n \in Reads : ScanReturn(n)
    \/ ScanTimeout
    \/ StartSymbolsLoaded
    \/ StartTimedOut

SpecSymbols == SymbolsInit /\ [][SymbolsNext]_vars

(***************************************************************************)
(* The command loop of main() of gdb_chat.py over its standard input.  A   *)
(* call of execute is one step from the line to the wait and one step from *)
(* the wait to the printed record; what the call returns is one of the     *)
(* results execute builds.                                                 *)
(***************************************************************************)

\* a classification that compares the line as typed
MainLineKindCaseSensitive(line) ==
    LET cmd == Strip(line)
    IN  IF cmd = "" THEN "blank"
        ELSE IF cmd \in {"quit", "exit", "q"} THEN "quit"
        ELSE IF cmd = "serial" THEN "serial"
        ELSE IF cmd = "serial-new" THEN "serial-new"
        ELSE "execute"

\* the branch of the loop body a line takes
MainLineKind(line) ==
    LET cmd == Strip(line)
    IN  IF cmd = "" THEN "blank"
        ELSE IF Lower(cmd) \in {"quit", "exit", "q"} THEN "quit"
        ELSE IF Lower(cmd) = "serial" THEN "serial"
        ELSE IF Lower(cmd) = "serial-new" THEN "serial-new"
        ELSE "execute"

\* what no step of the loop changes
loopFixed == << variant, startStep, gdbVars, timeout, allow_breakpoint, output,
                elapsed, last_output_time, scanEnd, heartbeat, section_addrs,
                command_count, files, timeout_arg, elf_sections, registry,
                procs, argv, stdin, hostVars >>

\* the line main() reads next
NextLine == stdin[nread + 1]

\* "if not cmd: continue"
LoopBlank ==
    /\ pc = "idle"
    /\ nread < Len(stdin)
    /\ MainLineKind(NextLine) = "blank"
    /\ nread' = nread + 1
    /\ UNCHANGED << loopFixed, pc, caller, procVars, command, result,
                    serialVars, ncmds, stopVars, stdout >>

\* quit, exit, q: stop(), the farewell, break, and "finally: chat.stop()"
LoopQuit ==
    /\ pc = "idle"
    /\ nread < Len(stdin)
    /\ MainLineKind(NextLine) = "quit"
    /\ nread' = nread + 1
    /\ \E o \in ChatStopTwice(gdb_process, qemu_process) : Stopped(o, 2)
    /\ result' = [success |-> TRUE, status |-> "terminated"]
    /\ stdout' = Append(stdout, result')
    /\ pc' = "exited"
    /\ UNCHANGED << loopFixed, caller, command, serialVars, ncmds >>

\* serial and serial-new
LoopSerial ==
    /\ pc = "idle"
    /\ nread < Len(stdin)
    /\ nread' = nread + 1
    /\ \/ /\ MainLineKind(NextLine) = "serial"
          /\ result' = [success |-> TRUE, command |-> "serial",
                        serial_output |->
                            Truncate(get_all_serial_output(serialExists, serialSize),
                                     SerialAllLimit)]
          /\ UNCHANGED serialVars
       \/ /\ MainLineKind(NextLine) = "serial-new"
          /\ ReadNewSerial
          /\ result' = [success |-> TRUE, command |-> "serial-new",
                        serial_output |-> Truncate(NewSerialText, SerialNewLimit)]
    /\ stdout' = Append(stdout, result')
    /\ UNCHANGED << loopFixed, pc, caller, procVars, command, ncmds, stopVars >>

\* any other line: chat.execute(cmd) up to the wait.  A debugger that is
\* gone, and a write that raises, give their result at once.
LoopExecute ==
    /\ pc = "idle"
    /\ nread < Len(stdin)
    /\ MainLineKind(NextLine) = "execute"
    /\ nread' = nread + 1
    /\ ncmds' = ncmds + 1
    /\ LET cmd == Strip(NextLine) IN
       \E g \in Poll(gdb_process) :
          \/ /\ ~Alive(g)
             /\ gdb_process' = g
             /\ result' = ExecuteNotRunning(cmd)
             /\ stdout' = Append(stdout, result')
             /\ UNCHANGED << pc, caller, command, serialVars >>
          \/ /\ Alive(g)
             /\ gdb_process' = "exited"
             /\ ReadNewSerial
             /\ result' = ExecuteFailed(cmd, BrokenPipe, NewSerialText)
             /\ stdout' = Append(stdout, result')
             /\ UNCHANGED << pc, caller, command >>
          \/ /\ Alive(g)
             /\ gdb_process' = g
             /\ pc' = "scan"
             /\ caller' = "execute"
             /\ command' = cmd
             /\ result' = NoResult
             /\ UNCHANGED << serialVars, stdout >>
    /\ UNCHANGED << loopFixed, qemu_process, stopVars >>

\* chat.execute returns from its wait, with the prompt or at the deadline,
\* and main() prints the result
LoopRecord ==
    /\ pc = "scan"
    /\ ReadNewSerial
    /\ \/ \E r \in Responses(command) :
             /\ ~r.blocks
             /\ result' = ExecuteSuccess(command, CleanOutput(r.text, command), 0,
                                         NewSerialText)
       \/ result' = ExecuteTimedOut(command, NewSerialText)
    /\ stdout' = Append(stdout, result')
    /\ pc' = "idle"
    /\ caller' = "none"
    /\ command' = ""
    /\ UNCHANGED << loopFixed, procVars, ncmds, stopVars, nread >>

\* end of input: "finally: chat.stop()"
LoopEOF ==
    /\ pc = "idle"
    /\ nread = Len(stdin)
    /\ \E o \in ChatStopCall(gdb_process, qemu_process) : Stopped(o, 1)
    /\ pc' = "exited"
    /\ UNCHANGED << loopFixed, caller, command, result, serialVars, ncmds,
                    nread, stdout >>

\* SIGINT while execute waits: signal_handler stops the children and exits,
\* and the line has no record.  (While main() waits for a line the signal
\* does what the end of input does.)
LoopSigInt ==
    /\ pc = "scan"
    /\ \E o \in ChatStopCall(gdb_process, qemu_process) : Stopped(o, 1)
    /\ pc' = "interrupted"
    /\ UNCHANGED << loopFixed, caller, command, result, serialVars, ncmds,
                    nread, stdout >>

\* lines typed on standard input
Lines == { "  \n", "bt\n", " Quit\n", "Serial\n", "serial-new\n" }

\* the inputs: up to MaxLines lines
StdinInputs == UNION { [1..n -> Lines] : n \in 0..MaxLines }

\* A GDBChat after a successful start(), before main() reads its first line.
LoopInit ==
    /\ variant = "chat"
    /\ pc = "idle"
    /\ caller = "none"
    /\ startStep = Len(Handshake)
    /\ gdb_process = "running"
    /\ qemu_process = "running"
    /\ stream = ""
    /\ gdbBlocked = FALSE
    /\ promptEnds = << >>
    /\ queued = 0
    /\ command = ""
    /\ timeout = 0
    /\ allow_breakpoint = FALSE
    /\ output = ""
    /\ elapsed = 0
    /\ last_output_time = 0
    /\ scanEnd = "none"
    /\ heartbeat = FALSE
    /\ result = NoResult
    /\ serial_read_pos = 0
    /\ serialExists = TRUE
    /\ serialSize \in SerialBursts
    /\ serialWrites = 0
    /\ delivered = << >>
    /\ section_addrs = EmptyDict
    /\ command_count = 0
    /\ files = {}
    /\ ncmds = 0
    /\ timeout_arg = None
    /\ stopCalls = 0
    /\ last_stop = NoStop
    /\ elf_sections = EmptyDict
    /\ registry = [id \in SessionIds |-> NoSession]
    /\ procs = [p \in Pids |-> "gone"]
    /\ argv = [script |-> "none"]
    /\ stdin \in StdinInputs
    /\ nread = 0
    /\ stdout = << >>
    /\ clock = 0
    /\ created = << >>
    /\ disk = << >>

LoopNext ==
    \/ LoopBlank
    \/ LoopQuit
    \/ LoopSerial
    \/ LoopExecute
    \/ LoopRecord
    \/ LoopEOF
    \/ LoopSigInt

SpecLoop == LoopInit /\ [][LoopNext]_vars

(***************************************************************************)
(* gdb_parser: the stop event and the register table, and a specification  *)
(* that applies the parsers to texts and commands                          *)
(***************************************************************************)

\* bp_pattern matched at i: [ok, event].  As in pattern_with_source, (\S+)
\* ends at the largest e for which the argument list still matches.
MatchBreakpointHit(s, i) ==
    LET w    == SpanEnd(s, i + 10, SpaceChars)
        d    == SpanEnd(s, w, Digits)
        f    == SpanEnd(s, d + 1, SpaceChars)
        top  == SpanEndNot(s, f, SpaceChars)
        ends == { e \in (f + 1)..top : MatchArgs(s, e).ok }
        e    == CHOOSE x \in ends : \A y \in ends : y <= x
        g    == MatchArgs(s, e)
        src  == MatchSource(s, g.next)
        hit  == [reason |-> "breakpoint",
                 breakpoint_number |-> StrToNat(SubSeq(s, w, d - 1)),
                 function |-> SubSeq(s, f, e - 1), args |-> g.args]
    IN  IF /\ At(s, i, "Breakpoint") /\ w > i + 10 /\ d > w /\ At(s, d, ",")
           /\ f > d + 1 /\ ends # {}
        THEN [ok |-> TRUE,
              event |-> IF src.ok
                        THEN hit @@ [file |-> src.file, line |-> src.line]
                        ELSE hit]
        ELSE [ok |-> FALSE, event |-> << >>]

\* signal_pattern matched at i: [ok, event].  (\S+) ends with the comma that
\* white space follows; \s+ is greedy and gives back what (.+) needs; (.+)
\* stays on one line and runs to the last full stop of it.
MatchSignal(s, i) ==
    LET w      == SpanEnd(s, i + 23, SpaceChars)
        e      == SpanEndNot(s, w, SpaceChars)
        t      == SpanEnd(s, e, SpaceChars)
        Stops(d) == { k \in (d + 1)..Len(s) :
                        /\ Char(s, k) = "."
                        /\ \A j \in d..(k - 1) : Char(s, j) # "\n" }
        starts == { d \in (e + 1)..t : d <= Len(s) /\ Stops(d) # {} }
        d      == CHOOSE x \in starts : \A y \in starts : y <= x
        k      == CHOOSE x \in Stops(d) : \A y \in Stops(d) : y <= x
    IN  IF /\ At(s, i, "Program received signal") /\ w > i + 23
           /\ e > w + 1 /\ Char(s, e - 1) = "," /\ starts # {}
        THEN [ok |-> TRUE,
              event |-> [reason |-> "signal", signal |-> SubSeq(s, w, e - 2),
                         description |-> SubSeq(s, d, k - 1)]]
        ELSE [ok |-> FALSE, event |-> << >>]

\* exit_pattern matched at i: [ok, event]
MatchExit(s, i) ==
    LET w == SpanEnd(s, i + 24, SpaceChars)
        d == SpanEnd(s, w, Digits)
    IN  IF At(s, i, "Program exited normally")
        THEN [ok |-> TRUE, event |-> [reason |-> "exited", exit_code |-> 0]]
        ELSE IF At(s, i, "Program exited with code") /\ w > i + 24 /\ d > w
        THEN [ok |-> TRUE,
              event |-> [reason |-> "exited",
                         exit_code |-> StrToNat(SubSeq(s, w, d - 1))]]
        ELSE [ok |-> FALSE, event |-> << >>]

\* re.search(pattern, output): the leftmost match of Match(output, i), or
\* [ok |-> FALSE]
Search(Match(_, _), s) ==
    LET hits == { i \in 1..Len(s) : Match(s, i).ok }
    IN  IF hits = {} THEN [ok |-> FALSE, event |-> << >>]
        ELSE Match(s, CHOOSE i \in hits : \A j \in hits : i <= j)

\* the three patterns with the signal tried first
parse_stopped_signal_first(out) ==
    IF Search(MatchSignal, out).ok THEN Some(Search(MatchSignal, out).event)
    ELSE IF Search(MatchBreakpointHit, out).ok
    THEN Some(Search(MatchBreakpointHit, out).event)
    ELSE IF Search(MatchExit, out).ok THEN Some(Search(MatchExit, out).event)
    ELSE None

\* gdb_parser.parse_stopped: None, or Some(event)
parse_stopped(out) ==
    IF Search(MatchBreakpointHit, out).ok
    THEN Some(Search(MatchBreakpointHit, out).event)
    ELSE IF Search(MatchSignal, out).ok THEN Some(Search(MatchSignal, out).event)
    ELSE IF Search(MatchExit, out).ok THEN Some(Search(MatchExit, out).event)
    ELSE None

RECURSIVE Upper(_)
\* s.upper()
Upper(s) ==
    IF Len(s) = 0 THEN s
    ELSE LET c == Char(s, 1)
             k == { i \in 1..Len(LowerLetters) : Char(LowerLetters, i) = c }
         IN  (IF k = {} THEN c ELSE Char(UpperLetters, CHOOSE i \in k : TRUE))
             \o Upper(SubSeq(s, 2, Len(s)))

RECURSIVE Pad(_, _)
\* f"{s:n}": s, filled with blanks on the right to n characters
Pad(s, n) == IF Len(s) >= n THEN s ELSE Pad(s \o " ", n)

RECURSIVE RegisterNames(_)
\* list(registers): the names in the order the dict of parse_registers got
\* them; a name keeps the place of its first line
RegisterNames(lines) ==
    IF Len(lines) = 0 THEN << >>
    ELSE LET m == MatchRegister(Strip(lines[Len(lines)]))
             before == RegisterNames(SubSeq(lines, 1, Len(lines) - 1))
         IN  IF Len(m) = 2 /\ \A i \in 1..Len(before) : before[i] # m[1]
             THEN Append(before, m[1]) ELSE before

\* gdb_parser.format_registers_table, for the dict with the names in the
\* order names: two registers to a line
format_registers_table(names, registers) ==
    LET Part(i) == Pad(Upper(names[i]), 4) \o ": " \o Pad(registers[names[i]], 18)
        Line(r) == IF 2 * r <= Len(names) THEN Part(2 * r - 1) \o "  " \o Part(2 * r)
                   ELSE Part(2 * r - 1)
    IN  Join([r \in 1..((Len(names) + 1) \div 2) |-> Line(r)], "\n")

\* commands of the three classes, in several spellings, and others
ParserCommands ==
    { "info registers", " Info Reg rip", "bt", "Backtrace 3", "x/2gx 0x1000",
      " X/2wx 0x1000", "print x", "info line" }

\* texts gdb prints, cleaned
ParserTexts ==
    { "rax 0x1b 27\nrip 0xfff0 <main+4>",
      "eflags 0x246 [ PF ZF ]\nrax 0x0 0\nrax 0x2 2",
      "#0  0xffffffff80001234 in kernel_main () at kernel/src/main.rs:42\n#1  0x1000 in _start ()",
      "#0  0x1234 in kmain (a=1)\nwarning: x\n#1  0x2000\n#2  0x3000 in ??",
      "0x1000:\t0x00000001\t0x00000002\n0x1010 <buf+16>:\t0x3",
      "Breakpoint 1, kernel_main () at kernel/src/main.rs:42\n42\tlet x = 1;",
      "Program received signal SIGSEGV, Segmentation fault.\n0x1234 in f ()",
      "Program exited with code 3",
      "Program received signal SIGINT, Interrupt.\nBreakpoint 2, f (x=1)",
      "Program exited normally.\nProgram received signal SIGTERM, Terminated.",
      "No symbol table is loaded." }

\* A parser is about to be applied to a text.
ParserInit ==
    /\ variant \in {"chat", "session"}
    /\ pc = "idle"
    /\ caller = "none"
    /\ startStep = Len(Handshake)
    /\ gdb_process = "running"
    /\ qemu_process = "running"
    /\ stream = ""
    /\ gdbBlocked = FALSE
    /\ promptEnds = << >>
    /\ queued = 0
    /\ command \in ParserCommands
    /\ timeout = 0
    /\ allow_breakpoint = FALSE
    /\ output \in ParserTexts
    /\ elapsed = 0
    /\ last_output_time = 0
    /\ scanEnd = "none"
    /\ heartbeat = FALSE
    /\ result = NoResult
    /\ serial_read_pos = 0
    /\ serialExists = FALSE
    /\ serialSize = 0
    /\ serialWrites = 0
    /\ delivered = << >>
    /\ section_addrs = EmptyDict
    /\ command_count = 0
    /\ files = {}
    /\ ncmds = 0
    /\ timeout_arg = None
    /\ stopCalls = 0
    /\ last_stop = NoStop
    /\ elf_sections = EmptyDict
    /\ registry = [id \in SessionIds |-> NoSession]
    /\ procs = [p \in Pids |-> "gone"]
    /\ argv = [script |-> "none"]
    /\ stdin = << >>
    /\ nread = 0
    /\ stdout = << >>
    /\ clock = 0
    /\ created = << >>
    /\ disk = << >>

\* what applying a parser leaves alone
parserFixed == << fixedVars, startStep, procVars, gdbVars, scanVars, serialVars,
                  section_addrs, command_count, files, ncmds, timeout_arg,
                  stopVars >>

\* self._parse(command, output) of a GDBChat, self._parse_output(command,
\* output) of a GDBSession
ParseOutput ==
    /\ pc = "idle"
    /\ result' = IF variant = "chat" THEN GDBChat_parse_typed(command, output)
                 ELSE parse_output_typed(command, output)
    /\ caller' = "parse"
    /\ pc' = "done"
    /\ UNCHANGED parserFixed

\* parse_stopped(output)
ParseStopped ==
    /\ pc = "idle"
    /\ result' = [event |-> parse_stopped(output)]
    /\ caller' = "parse_stopped"
    /\ pc' = "done"
    /\ UNCHANGED parserFixed

\* parse_registers(format_registers_table(parse_registers(output)))
ReparseRegisters ==
    /\ pc = "idle"
    /\ LET registers == parse_registers(output)
           table == format_registers_table(RegisterNames(Split(output, "\n")),
                                           registers)
       IN  result' = [registers |-> registers, table |-> table,
                      reparsed |-> parse_registers(table)]
    /\ caller' = "format_registers_table"
    /\ pc' = "done"
    /\ UNCHANGED parserFixed

ParserNext ==
    \/ ParseOutput
    \/ ParseStopped
    \/ ReparseRegisters

SpecParsers == ParserInit /\ [][ParserNext]_vars

(***************************************************************************)
(* Several controllers on one host.  Every run of start_session.py makes   *)
(* a GDBSession and every run of gdb_chat.py a GDBChat; the runs are       *)
(* processes of their own that share the wall clock and /tmp.  A file is   *)
(* [inode, data]: data lists, burst by burst, the controller that wrote    *)
(* it.  A controller is numbered by its place in created.                  *)
(***************************************************************************)

\* GDBSession.SESSION_DIR
SESSION_DIR == "/tmp/breenix_gdb_sessions"

\* GDBChat.SERIAL_LOG_FILE
SERIAL_LOG_FILE == "/tmp/breenix_gdb_serial.log"

\* %H, %M and %S of strftime: two decimal digits
TwoDigits(n) == Char(Digits, (n \div 10) + 1) \o Char(Digits, (n % 10) + 1)

\* f"gdb_{datetime.now().strftime('%Y%m%d_%H%M%S')}" at t seconds after
\* midnight of 2025-01-01
SessionIdAt(t) ==
    "gdb_20250101_" \o TwoDigits((t \div 3600) % 24) \o TwoDigits((t \div 60) % 60)
                    \o TwoDigits(t % 60)

\* self.metadata_file and self.qemu_log of a GDBSession
metadata_file(session_id) == SESSION_DIR \o "/" \o session_id \o ".json"
qemu_log(session_id) == SESSION_DIR \o "/" \o session_id \o ".qemu.log"

\* the file the emulator of a controller writes its console to
LogOf(c) == IF c.kind = "chat" THEN SERIAL_LOG_FILE ELSE qemu_log(c.session_id)

\* the files a controller keeps
FilesOf(c) == IF c.kind = "chat" THEN { SERIAL_LOG_FILE }
              ELSE { metadata_file(c.session_id), qemu_log(c.session_id) }

\* the disk without some paths
Unlink(d, paths) == [p \in (DOMAIN d) \ paths |-> d[p]]

\* open(path, 'w'), and what QEMU does with -serial file:path: an existing
\* file is truncated and keeps its inode, a missing one is created
OpenW(d, path, k) ==
    IF path \in DOMAIN d THEN (path :> [inode |-> d[path].inode, data |-> << >>]) @@ d
    ELSE (path :> [inode |-> k, data |-> << >>]) @@ d

\* a write through a file that is open
WriteTo(d, path, k) == [d EXCEPT ![path].data = Append(@, k)]

\* time passes
ClockTick ==
    /\ clock < MaxSeconds
    /\ clock' = clock + 1
    /\ UNCHANGED << created, disk >>

\* start_session.py: main() names the session after the clock,
\* GDBSession.__init__ derives the paths, _start_qemu opens the console log
\* for writing and _save_metadata writes the record.
StartSessionScript ==
    /\ Len(created) < MaxControllers
    /\ LET k == Len(created) + 1
           session_id == SessionIdAt(clock)
           opened == OpenW(disk, qemu_log(session_id), k)
       IN  /\ created' = Append(created,
                  [kind |-> "session", session_id |-> session_id, alive |-> TRUE,
                   inode |-> opened[qemu_log(session_id)].inode, writes |-> 0])
           /\ disk' = WriteTo(OpenW(opened, metadata_file(session_id), k),
                              metadata_file(session_id), k)
    /\ UNCHANGED clock

\* gdb_chat.py: GDBChat.start removes the serial log and starts the
\* emulator, which opens the log when it has been built.
StartChatScript ==
    /\ Len(created) < MaxControllers
    /\ created' = Append(created,
           [kind |-> "chat", session_id |-> "", alive |-> TRUE, inode |-> 0, writes |-> 0])
    /\ disk' = Unlink(disk, { SERIAL_LOG_FILE })
    /\ UNCHANGED clock

\* The emulator of controller k writes a burst to its console.  The first
\* burst of a GDBChat's emulator opens the log.  What it writes to a file
\* that was unlinked is seen by nobody.
EmulatorWrites(k) ==
    /\ created[k].alive
    /\ created[k].writes < MaxBursts
    /\ LET c == created[k]
           path == LogOf(c)
       IN  \/ /\ c.inode = 0
              /\ LET opened == OpenW(disk, path, k)
                 IN  /\ disk' = WriteTo(opened, path, k)
                     /\ created' = [created EXCEPT ![k].inode = opened[path].inode,
                                                   ![k].writes = @ + 1]
           \/ /\ c.inode # 0
              /\ path \in DOMAIN disk
              /\ disk[path].inode = c.inode
              /\ disk' = WriteTo(disk, path, k)
              /\ created' = [created EXCEPT ![k].writes = @ + 1]
    /\ UNCHANGED clock

\* stop() of controller k: GDBSession.stop ends with _cleanup, which
\* unlinks SESSION_DIR/<session_id>.*; GDBChat.stop removes nothing.
StopController(k) ==
    /\ created[k].alive
    /\ created' = [created EXCEPT ![k].alive = FALSE]
    /\ disk' = IF created[k].kind = "session" THEN Unlink(disk, FilesOf(created[k]))
               ELSE disk
    /\ UNCHANGED clock

HostInit ==
    /\ variant = "session"
    /\ pc = "idle"
    /\ caller = "none"
    /\ startStep = 0
    /\ gdb_process = "none"
    /\ qemu_process = "none"
    /\ stream = ""
    /\ gdbBlocked = FALSE
    /\ promptEnds = << >>
    /\ queued = 0
    /\ command = ""
    /\ timeout = 0
    /\ allow_breakpoint = FALSE
    /\ output = ""
    /\ elapsed = 0
    /\ last_output_time = 0
    /\ scanEnd = "none"
    /\ heartbeat = FALSE
    /\ result = NoResult
    /\ serial_read_pos = 0
    /\ serialExists = FALSE
    /\ serialSize = 0
    /\ serialWrites = 0
    /\ delivered = << >>
    /\ section_addrs = EmptyDict
    /\ command_count = 0
    /\ files = {}
    /\ ncmds = 0
    /\ timeout_arg = None
    /\ stopCalls = 0
    /\ last_stop = NoStop
    /\ elf_sections = EmptyDict
    /\ registry = [id \in SessionIds |-> NoSession]
    /\ procs = [p \in Pids |-> "gone"]
    /\ argv = [script |-> "none"]
    /\ stdin = << >>
    /\ nread = 0
    /\ stdout = << >>
    /\ clock = 0
    /\ created = << >>
    /\ disk = << >>

\* what the scripts of the host leave alone: the one controller object
\* the other specifications follow
hostFixed == << variant, pc, caller, startStep, result, section_addrs, command_count,
                files, ncmds, timeout_arg, elf_sections, registry, procs, argv,
                ioVars, gdbVars, scanVars, procVars, serialVars, stopVars >>

HostNext ==
    \/ ClockTick /\ UNCHANGED hostFixed
    \/ StartSessionScript /\ UNCHANGED hostFixed
    \/ StartChatScript /\ UNCHANGED hostFixed
    \/ \E k \in DOMAIN created : EmulatorWrites(k) /\ UNCHANGED hostFixed
    \/ \E k \in DOMAIN created : StopController(k) /\ UNCHANGED hostFixed

SpecHost == HostInit /\ [][HostNext]_vars

(***************************************************************************)
(* The dispatchers after the scanner returned: the cleaning of the raw     *)
(* text, the error check of execute_command and the result, applied to     *)
(* commands and raw texts of gdb.                                          *)
(***************************************************************************)

\* commands given to execute / execute_command
CleanCommands == { "c", "bt", "print foo", "info registers", "x/2gx 0x10" }

\* what the scanner returns: the text gdb printed, up to and including the
\* prompt (a terminal that echoes puts the command in front)
RawResponses ==
    { "Cannot access memory at address 0x10\n(gdb) ",
      "No symbol \"foo\" in current context.\n(gdb) ",
      "print foo\n$1 = 5\n\n(gdb) ",
      "$1 = 5\n(gdb) ",
      "#0  0x1234 in kmain ()\n#1  0x2000 in core::fmt ()\n(gdb) ",
      "rax 0x1b 27\nrcx 0x0 0\n(gdb) ",
      "c\nContinuing.\n\nBreakpoint 1, kmain () at m.rs:4\n(gdb) " }

\* A call of execute / execute_command whose scanner has just returned
CleanInit ==
    /\ variant \in {"chat", "session"}
    /\ pc = "got"
    /\ caller = "execute"
    /\ startStep = Len(Handshake)
    /\ gdb_process = "running"
    /\ qemu_process = "running"
    /\ stream = ""
    /\ gdbBlocked = FALSE
    /\ promptEnds = << >>
    /\ queued = 0
    /\ command \in CleanCommands
    /\ timeout = IF variant = "chat" THEN ExecutePolicy(command, None).timeout
                 ELSE ExecuteCommandTimeoutOf(None)
    /\ allow_breakpoint = (variant = "chat" /\ ExecutePolicy(command, None).allow_breakpoint)
    /\ output \in RawResponses
    /\ elapsed = 0
    /\ last_output_time = 0
    /\ scanEnd = "returned"
    /\ heartbeat = FALSE
    /\ result = NoResult
    /\ serial_read_pos = 0
    /\ serialExists = (variant = "chat")
    /\ serialSize = 0
    /\ serialWrites = 0
    /\ delivered = << >>
    /\ section_addrs = EmptyDict
    /\ command_count = 0
    /\ files = {}
    /\ ncmds = 1
    /\ timeout_arg = None
    /\ stopCalls = 0
    /\ last_stop = NoStop
    /\ elf_sections = EmptyDict
    /\ registry = [id \in SessionIds |-> NoSession]
    /\ procs = [p \in Pids |-> "gone"]
    /\ argv = [script |-> "none"]
    /\ stdin = << >>
    /\ nread = 0
    /\ stdout = << >>
    /\ clock = 0
    /\ created = << >>
    /\ disk = << >>

CleanNext ==
    \/ ExecuteReturns
    \/ CommandReturns

SpecClean == CleanInit /\ [][CleanNext]_vars

(***************************************************************************)
(* The scanner of GDBChat on its own: one call of execute from the write   *)
(* of the command to the result, with iterations that take longer than    *)
(* the idle window and less than the deadline.                             *)
(***************************************************************************)

\* seconds that pass during one iteration of the scanner, the idle window
\* of 10 seconds lying between them
ScanSteps == {0, 11, 100}

\* execute(command) has written its command and starts to scan.
ScanInit ==
    /\ variant = "chat"
    /\ pc = "scan"
    /\ caller = "execute"
    /\ startStep = Len(Handshake)
    /\ gdb_process = "running"
    /\ qemu_process = "running"
    /\ command \in Commands("chat")
    /\ \E r \in Responses(command) :
         LET g == GdbAfterWrite([stream |-> "", blocked |-> FALSE, ends |-> << >>,
                                 queued |-> 0], r, TRUE)
         IN  /\ stream = g.stream
             /\ gdbBlocked = g.blocked
             /\ promptEnds = g.ends
             /\ queued = g.queued
    /\ timeout = ExecutePolicy(command, None).timeout
    /\ allow_breakpoint = ExecutePolicy(command, None).allow_breakpoint
    /\ output = ""
    /\ elapsed = 0
    /\ last_output_time = 0
    /\ scanEnd = "running"
    /\ heartbeat = FALSE
    /\ result = NoResult
    /\ serial_read_pos = 0
    /\ serialExists = TRUE
    /\ serialSize = 0
    /\ serialWrites = 0
    /\ delivered = << >>
    /\ section_addrs = EmptyDict
    /\ command_count = 0
    /\ files = {}
    /\ ncmds = 1
    /\ timeout_arg = None
    /\ stopCalls = 0
    /\ last_stop = NoStop
    /\ elf_sections = EmptyDict
    /\ registry = [id \in SessionIds |-> NoSession]
    /\ procs = [p \in Pids |-> "gone"]
    /\ argv = [script |-> "none"]
    /\ stdin = << >>
    /\ nread = 0
    /\ stdout = << >>
    /\ clock = 0
    /\ created = << >>
    /\ disk = << >>

ScanNext ==
    \/ \E n \in Reads : ScanContinueIn(n, ScanSteps)
    \/ \E n \in Reads : ScanReturn(n)
    \/ ScanTimeout
    \/ ExecuteReturns
    \/ ExecuteTimesOut

SpecScan == ScanInit /\ [][ScanNext]_vars

(***************************************************************************)
(* Properties                                                              *)
(***************************************************************************)

\* the result r of a dispatcher is a success with output and without error
IsSuccessResult(r) ==
    /\ r.success = TRUE
    /\ "output" \in DOMAIN r
    /\ "error" \notin DOMAIN r

\* the result r of a dispatcher is a failure with error and without output
IsFailureResult(r) ==
    /\ r.success = FALSE
    /\ "error" \in DOMAIN r
    /\ "output" \notin DOMAIN r

\* C1: every result of GDBChat.execute and of GDBSession.execute_command,
\* on every path (completion, debugger error phrase, timeout, another
\* exception, debugger not running), is exactly one of: a success with an
\* output field and no error field, or a failure with an error field and no
\* output field.
C1_ResultIsSuccessOrFailure ==
    (pc = "done" /\ caller = "execute") =>
        /\ "success" \in DOMAIN result
        /\ IsSuccessResult(result) \/ IsFailureResult(result)
        /\ ~(IsSuccessResult(result) /\ IsFailureResult(result))

\* execute_command has returned the failure for a debugger error phrase
C1_Witness ==
    /\ pc = "done"
    /\ caller = "execute"
    /\ variant = "session"
    /\ "error_type" \in DOMAIN result
    /\ result.error_type = "gdb_error"
    /\ result.success = FALSE

\* C2: the scanner returns only when the accumulated text, right-trimmed,
\* ends with the prompt: no output of the command follows the last prompt
\* of the text it returns.
C2_ReturnsOnlyPromptTerminated ==
    pc = "got" => EndsWith(RStrip(output), GDB_PROMPT)

\* C3: the deadline ends every wait (the scanner returns or raises
\* TimeoutError, it does not loop for ever), the scanner raises only when
\* the deadline has passed, and no iteration that began at or after the
\* deadline returns normally.
C3_DeadlineEndsTheWait ==
    /\ [][(pc = "scan" /\ pc' = "got") => elapsed < timeout]_vars
    /\ [][(pc = "scan" /\ pc' = "timedout") => elapsed >= timeout]_vars
    /\ (pc = "scan") ~> (pc # "scan")

\* a wait for "continue" was ended by the deadline, 300 seconds after it
\* began, while the debugger printed no prompt
C3_Witness ==
    /\ pc = "timedout"
    /\ caller = "execute"
    /\ timeout = 300
    /\ elapsed >= timeout
    /\ ~Contains(output, GDB_PROMPT)

\* C4: while GDBChat waits with breakpoint detection, once the text read
\* contains the breakpoint line and the prompt the wait is over, however
\* the text was cut into chunks; and execute then returns a success.
C4_BreakpointEndsTheWait ==
    [][ /\ ( /\ variant = "chat"
             /\ pc = "scan"
             /\ allow_breakpoint
             /\ Contains(output', "Breakpoint")
             /\ Contains(output', GDB_PROMPT) ) => pc' # "scan"
        /\ ( /\ variant = "chat"
             /\ pc = "got"
             /\ caller = "execute"
             /\ pc' # "got" ) => (pc' = "done" /\ IsSuccessResult(result'))
      ]_vars

\* "continue" hit a breakpoint: the wait returned with the breakpoint line
\* and the prompt, read in more than one chunk, before its deadline
C4_Witness ==
    /\ variant = "chat"
    /\ pc = "got"
    /\ caller = "execute"
    /\ allow_breakpoint
    /\ Contains(output, "Breakpoint 1")
    /\ EndsWith(RStrip(output), GDB_PROMPT)
    /\ Len(output) > 24
    /\ stream = ""
    /\ elapsed < timeout

\* C5: at most one command is in flight: of the commands written to the
\* debugger, at most one has not had its completing prompt read.
C5_AtMostOneInFlight == InFlight <= 1

\* C6: execute trims the command and folds its case; continue, c, cont and
\* every text starting with "run" wait 300 seconds, every other command 30;
\* a timeout given by the caller is the deadline whatever the command.
C6_PolicyByCommandClass ==
    (variant = "chat" /\ pc = "scan" /\ caller = "execute") =>
        LET key == Lower(Strip(command)) IN
        timeout = IF timeout_arg # None THEN timeout_arg[1]
                  ELSE IF key \in {"continue", "c", "cont"} THEN 300
                  ELSE IF StartsWith(key, "run") THEN 300
                  ELSE 30

\* " Continue " without a timeout argument waits 300 seconds
C6_Witness ==
    /\ variant = "chat"
    /\ pc = "scan"
    /\ caller = "execute"
    /\ command = " Continue "
    /\ timeout_arg = None
    /\ timeout = 300

\* the bytes get_new_serial_output finds after the cursor, at most 8192
NewSerialBytes ==
    IF serialExists /\ serialSize > serial_read_pos
    THEN Min(8192, serialSize - serial_read_pos)
    ELSE 0

\* C7: when GDBChat.execute ends in TimeoutError or in another exception of
\* the write or the wait, it reads the new serial text, which advances the
\* cursor, and the failure carries that text, cut to 4000 bytes, as
\* serial_output exactly when there is any.
C7_FailureCarriesSerial ==
    [][ ( /\ variant = "chat"
          /\ pc \in {"timedout", "idle"}
          /\ pc' = "done"
          /\ caller' = "execute"
          /\ result' # ExecuteNotRunning(result'.command) ) =>
        ( /\ IsFailureResult(result')
          /\ serial_read_pos' = serial_read_pos + NewSerialBytes
          /\ ("serial_output" \in DOMAIN result') = (NewSerialBytes > 0)
          /\ NewSerialBytes > 0 =>
                result'.serial_output =
                    [from |-> serial_read_pos,
                     to |-> serial_read_pos + Min(NewSerialBytes, 4000)] )
      ]_vars

\* a timeout of execute returned serial text the emulator had written
C7_Witness ==
    /\ variant = "chat"
    /\ pc = "done"
    /\ caller = "execute"
    /\ result.success = FALSE
    /\ result.error = "timeout"
    /\ "serial_output" \in DOMAIN result
    /\ serial_read_pos > 0

\* C8: the timeout failure of a dispatcher carries the text the scanner
\* had accumulated when the deadline passed.
C8_TimeoutCarriesPartialOutput ==
    [][ ( /\ pc = "timedout"
          /\ caller = "execute"
          /\ pc' = "done"
          /\ output # "" ) =>
        ( /\ "error" \in DOMAIN result'
          /\ Contains(result'.error, output) )
      ]_vars

\* the ranges are not empty, each begins where the one before ended, and
\* the first begins at the start of the log
Contiguous(ranges) ==
    /\ \A i \in 1..Len(ranges) : ranges[i].from < ranges[i].to
    /\ \A i \in 1..(Len(ranges) - 1) : ranges[i].to = ranges[i + 1].from
    /\ Len(ranges) > 0 => ranges[1].from = 0

\* C9: the read cursor never decreases and never exceeds the size of the
\* log; each call of get_new_serial_output that returns text returns the
\* bytes from the old cursor to the new one, so the ranges returned by
\* successive calls are disjoint and contiguous.
C9_SerialCursor ==
    [][ /\ serial_read_pos' >= serial_read_pos
        /\ serial_read_pos' <= serialSize'
        /\ Contiguous(delivered')
        /\ delivered' # delivered =>
              delivered' = Append(delivered, [from |-> serial_read_pos,
                                              to |-> serial_read_pos'])
        /\ delivered' = delivered => serial_read_pos' = serial_read_pos
      ]_vars

\* two calls returned text, the second of them text the emulator wrote
\* after the session had started
C9_Witness ==
    /\ Len(delivered) >= 2
    /\ serialWrites >= 1
    /\ serial_read_pos = delivered[Len(delivered)].to
    /\ serial_read_pos = serialSize

\* C10: a call of stop() after a first stop() sends no quit line and no
\* signal, raises nothing and leaves the children as it found them.
C10_SecondStopDoesNothing ==
    stopCalls >= 2 =>
        /\ last_stop.quits = 0
        /\ last_stop.signals = 0
        /\ ~last_stop.raised
        /\ last_stop.gdb = last_stop.found_gdb
        /\ last_stop.qemu = last_stop.found_qemu

\* C11: a call of stop() returns without raising, and leaves neither the
\* debugger nor the emulator running, whatever the children did (ignored
\* quit, ignored terminate, a broken pipe).
C11_StopReturnsAndLeavesNoChild ==
    stopCalls >= 1 =>
        /\ ~last_stop.raised
        /\ last_stop.gdb # "running"
        /\ last_stop.qemu # "running"

\* C12: a run of stop_session.py on a session that has a metadata record,
\* with or without --force, ends with the record and the log files of the
\* session removed, and list_sessions no longer reports the session.
C12_DestroyRemovesTheSession ==
    [][ \A id \in SessionIds, force \in BOOLEAN :
          (StopSession(id, force) /\ registry[id].metadata # None) =>
              /\ registry'[id] = NoSession
              /\ \A i \in DOMAIN list_sessions(registry', procs') :
                    list_sessions(registry', procs')[i].session_id # id
      ]_vars

\* C13: when the gdb_chat controller has exited, however it came to exit
\* (quit, end of input, SIGINT, a failed start()), neither the debugger nor
\* the emulator is left running.
C13_ChatExitLeavesNoChild ==
    (variant = "chat" /\ pc = "exited") =>
        /\ gdb_process # "running"
        /\ qemu_process # "running"

\* C14: when GDBSession.start has failed after spawning a child, the
\* children it spawned are not running when the failure reaches the caller.
C14_FailedCreateLeavesNoChild ==
    ( /\ variant = "session"
      /\ pc = "exited"
      /\ caller = "start"
      /\ stopCalls = 0
      /\ result \in { Raised("TimeoutError"), Raised("ConnectionError"),
                      Raised("RuntimeError") } ) =>
        /\ gdb_process # "running"
        /\ qemu_process # "running"

\* C15: when start() has ended and a child has exited (the emulator by the
\* end of the initial wait, the debugger after its spawn), start() has
\* failed with an error that is not a timeout, no line is left written to
\* a debugger that cannot answer, and no metadata record is written.
C15_ChildExitIsStartupFailure ==
    ( /\ pc = "exited"
      /\ caller = "start"
      /\ stopCalls = 0
      /\ (qemu_process = "exited" \/ gdb_process = "exited") ) =>
        /\ result \in { QemuFailed(variant), Raised("RuntimeError"),
                        Raised("BrokenPipeError") }
        /\ queued = 0
        /\ "json" \notin files

\* C16: gdb_cmd fails with session_not_found when the id has no record,
\* whatever runs under the pids, and with session_dead when it has a record
\* and the recorded debugger or emulator pid no longer exists; in both
\* cases nothing is written to a debugger and the directory and the process
\* table stay as they were.
C16_ReattachFailures ==
    [][ \A id \in SessionIds :
          GdbCmd(id) =>
              LET record == registry[id].metadata
                  missing == record = None
                  dead == /\ record # None
                          /\ \/ procs[record[1].gdb_pid] = "gone"
                             \/ procs[record[1].qemu_pid] = "gone"
              IN  /\ missing => result'.error_type = "session_not_found"
                  /\ dead => result'.error_type = "session_dead"
                  /\ (missing \/ dead) =>
                        /\ ~result'.success
                        /\ registry' = registry
                        /\ procs' = procs
                        /\ << stream, queued, promptEnds, ncmds, command_count >>'
                             = << stream, queued, promptEnds, ncmds, command_count >>
      ]_vars

\* gdb_cmd reported session_dead for a session whose record names a live
\* debugger and an emulator that is gone
C16_Witness ==
    /\ argv.script = "gdb_cmd"
    /\ result = [success |-> FALSE, error_type |-> "session_dead"]
    /\ registry[argv.session].metadata # None
    /\ procs[registry[argv.session].metadata[1].gdb_pid] = "child"
    /\ procs[registry[argv.session].metadata[1].qemu_pid] = "gone"

\* C17: when the recorded debugger pid belongs to an unrelated process,
\* gdb_cmd fails with session_dead and list_sessions reports gdb_alive
\* false.
C17_ReusedPidIsNotAlive ==
    [][ /\ \A id \in SessionIds :
             ( /\ GdbCmd(id)
               /\ registry[id].metadata # None
               /\ procs[registry[id].metadata[1].gdb_pid] \in {"other", "foreign"} )
             => result'.error_type = "session_dead"
        /\ \A do_cleanup \in BOOLEAN :
             ListSessions(do_cleanup) =>
                 \A i \in DOMAIN result'.sessions :
                     procs[result'.sessions[i].gdb_pid] \in {"other", "foreign"}
                        => ~result'.sessions[i].gdb_alive
      ]_vars

\* What list_sessions returned stands for the directory reg: one entry per
\* metadata record.
OneEntryPerRecord(sessions, reg) ==
    /\ \A id \in SessionIds :
          Cardinality({ i \in DOMAIN sessions : sessions[i].session_id = id })
             = (IF reg[id].metadata = None THEN 0 ELSE 1)
    /\ \A i \in DOMAIN sessions :
          /\ sessions[i].gdb_pid = reg[sessions[i].session_id].metadata[1].gdb_pid
          /\ sessions[i].qemu_pid = reg[sessions[i].session_id].metadata[1].qemu_pid

FullHandshake == Handshake \o SymbolCommand(elf_sections)

\* C19: start() writes the handshake in order (pagination, confirmation,
\* connect, symbols), each line while no earlier line waits for its prompt;
\* a start() that succeeded has written all of them, the symbols of a
\* kernel with a .text section included; a metadata record exists only
\* when the connect line was answered, and not after a start() that failed.
C19_HandshakeInOrder ==
    /\ (caller = "start" /\ pc = "scan" /\ startStep >= 1) =>
          /\ startStep <= Len(FullHandshake)
          /\ command = FullHandshake[startStep]
          /\ InFlight <= 1
    /\ (caller = "start" /\ pc = "done") =>
          \/ startStep = Len(Handshake) + 1
          \/ variant = "chat" /\ ".text" \notin DOMAIN elf_sections
    /\ "json" \in files => startStep >= Len(Handshake)
    /\ (caller = "start" /\ pc = "exited" /\ stopCalls = 0) => "json" \notin files

\* How often sub occurs in s
Occurrences(s, sub) == Cardinality({ i \in 1..Len(s) : At(s, i, sub) })

\* The digits of 0x10000000000 + vma, for a vma of at most 15 digits: the
\* low eight digits are those of vma, the digits above them are those of
\* 0x100 plus the rest of vma.
RuntimeAddress(vma) ==
    LET low == IF Len(vma) >= 8 THEN SubSeq(vma, Len(vma) - 7, Len(vma))
               ELSE SubSeq("00000000", 1, 8 - Len(vma)) \o vma
        high == IF Len(vma) > 8 THEN HexDigitsToNat(SubSeq(vma, 1, Len(vma) - 8)) ELSE 0
    IN  NatToHexDigits(256 + high) \o low

\* C20: for a section table with .text, start() writes one add-symbol-file
\* line: its address is KERNEL_BASE + vma(.text), each of .rodata, .data,
\* .bss of the table is named once with KERNEL_BASE + its vma and no other
\* section is named, and section_addrs is the table.  For a table without
\* .text no line is written, section_addrs stays empty and start() reports
\* success.
C20_SymbolsAtRuntimeAddresses ==
    IF ".text" \in DOMAIN elf_sections
    THEN /\ startStep <= Len(Handshake) + 1
         /\ startStep = Len(Handshake) + 1 =>
              /\ section_addrs = elf_sections
              /\ InFlight <= 1
              /\ pc = "scan" =>
                   /\ Occurrences(command, "add-symbol-file") = 1
                   /\ \/ command = "add-symbol-file " \o kernel_binary \o " 0x"
                                      \o RuntimeAddress(elf_sections[".text"])
                      \/ StartsWith(command, "add-symbol-file " \o kernel_binary \o " 0x"
                                      \o RuntimeAddress(elf_sections[".text"]) \o " -s ")
                   /\ \A name \in {".rodata", ".data", ".bss"} :
                        IF name \in DOMAIN elf_sections
                        THEN /\ Occurrences(command, " -s " \o name \o " ") = 1
                             /\ Contains(command \o " ", " -s " \o name \o " 0x"
                                            \o RuntimeAddress(elf_sections[name]) \o " ")
                        ELSE Occurrences(command, name) = 0
                   /\ Occurrences(command, " -s ") = Cardinality(DOMAIN elf_sections) - 1
    ELSE /\ startStep = Len(Handshake)
         /\ section_addrs = EmptyDict
         /\ InFlight = 0
         /\ pc \in {"got", "done"}
         /\ pc = "done" => result.success

\* start() waits for the answer to an add-symbol-file line that names all
\* four sections, one of them above 4 GiB
C20_Witness ==
    /\ pc = "scan"
    /\ caller = "start"
    /\ startStep = Len(Handshake) + 1
    /\ DOMAIN elf_sections = {".text", ".rodata", ".data", ".bss"}
    /\ elf_sections[".bss"] = "7fff80000000"
    /\ Contains(command, " -s .bss 0x80ff80000000")


\* C21: gdb_cmd run on a live session (a record whose debugger and emulator
\* are both running children) loads the session and executes its commands:
\* the run does not end in the record main() prints when the try block
\* raised before any command result existed.
C21_CommandsRunAgainstLiveSession ==
    [][ \A id \in SessionIds :
          ( /\ GdbCmd(id)
            /\ registry[id].metadata # None
            /\ procs[registry[id].metadata[1].gdb_pid] = "child"
            /\ procs[registry[id].metadata[1].qemu_pid] = "child" )
          => result'.error_type # "execution_failed"
      ]_vars

\* the line holds nothing but white space
IsBlankLine(line) == Strip(line) = ""

\* the line is quit, exit or q in any mix of cases
IsQuitLine(line) == Lower(Strip(line)) \in {"quit", "exit", "q"}

\* the record answers the line
Answers(record, line) ==
    IF IsQuitLine(line) THEN record = [success |-> TRUE, status |-> "terminated"]
    ELSE /\ "status" \notin DOMAIN record
         /\ record.command = IF Lower(Strip(line)) \in {"serial", "serial-new"}
                             THEN Lower(Strip(line)) ELSE Strip(line)

\* C22: at every moment of the command loop of gdb_chat the records printed
\* answer, one for one and in input order, the non-blank lines read so far
\* (the line whose execute is still waiting has none yet, and no further
\* line is read while it waits); blank lines have no record; no line is
\* read after a quit, exit or q line in any mix of cases; that line's
\* record is the terminated record, the children are stopped, and the
\* lines passed to the debugger are the non-blank lines read that are
\* neither quit nor serial lines.
C22_OneRecordPerLineUntilQuit ==
    LET read == SubSeq(stdin, 1, nread)
        heard == SelectSeq(read, LAMBDA l : ~IsBlankLine(l))
        waiting == IF caller = "execute" THEN 1 ELSE 0
    IN  /\ Len(stdout) = Len(heard) - waiting
        /\ \A i \in 1..Len(stdout) : Answers(stdout[i], heard[i])
        /\ pc = "scan" => nread > 0 /\ ~IsBlankLine(stdin[nread])
        /\ \A i \in 1..(nread - 1) : ~IsQuitLine(stdin[i])
        /\ (nread > 0 /\ IsQuitLine(stdin[nread])) =>
              /\ pc = "exited"
              /\ stopCalls >= 1
              /\ gdb_process # "running"
              /\ qemu_process # "running"
        /\ ncmds = Len(SelectSeq(heard, LAMBDA l :
                          Lower(Strip(l)) \notin {"quit", "exit", "q", "serial", "serial-new"}))

\* a blank line and Quit were read and one record printed, with a command
\* left unread
C22_Witness ==
    /\ stdin = << "  \n", " Quit\n", "bt\n" >>
    /\ nread = 2
    /\ stdout = << [success |-> TRUE, status |-> "terminated"] >>
    /\ ncmds = 0
    /\ pc = "exited"

\* the class of a command: its prefix, trimmed and in lower case
CommandClass(cmd) ==
    LET c == Lower(Strip(cmd)) IN
    IF StartsWith(c, "info reg") THEN "registers"
    ELSE IF StartsWith(c, "bt") \/ StartsWith(c, "backtrace") THEN "stack"
    ELSE IF StartsWith(c, "x/") THEN "memory"
    ELSE "other"

\* C23: in both controllers the structured output of a command is decided
\* by the class of the command and the cleaned text: a register map for
\* "info reg...", a frame list for "bt..." and "backtrace...", a memory word
\* list for "x/...", and the cleaned text itself for every other command.
C23_OutputByCommandClass ==
    (pc = "done" /\ caller = "parse") =>
        CASE CommandClass(command) = "registers" ->
                /\ result.type = "dict"
                /\ result.value = parse_registers(output)
          [] CommandClass(command) = "stack" ->
                /\ result.type = "list"
                /\ result.value = IF variant = "chat"
                                  THEN GDBChat_parse_backtrace(output)
                                  ELSE parse_backtrace(output)
          [] CommandClass(command) = "memory" ->
                /\ result.type = "list"
                /\ result.value = parse_memory(output)
          [] OTHER ->
                /\ result.type = "str"
                /\ result.value = output

\* C24: the table format_registers_table makes of the map parse_registers
\* returned parses back to that map.
C24_ReparseGivesSameMap ==
    (pc = "done" /\ caller = "format_registers_table") =>
        result.reparsed = result.registers

\* the frame marker of a line: << >>, or << n, address >> of the leftmost
\* "#<n>" that white space and an address follow
MarkerOf(line) ==
    LET Number(i) == SpanEnd(line, i + 1, Digits)
        Blank(i) == SpanEnd(line, Number(i), SpaceChars)
        Hexa(i) == SpanEnd(line, Blank(i) + 2, HexChars)
        hits == { i \in 1..Len(line) :
                    /\ At(line, i, "#") /\ Number(i) > i + 1
                    /\ Blank(i) > Number(i) /\ At(line, Blank(i), "0x")
                    /\ Hexa(i) > Blank(i) + 2 }
        i == CHOOSE x \in hits : \A y \in hits : x <= y
    IN  IF hits = {} THEN << >>
        ELSE << StrToNat(SubSeq(line, i + 1, Number(i) - 1)),
                SubSeq(line, Blank(i), Hexa(i) - 1) >>

\* C25: parse_backtrace returns one frame for each line that has a frame
\* marker #<n> followed by an address, whether or not "in <function>
\* (<args>)" and "at <file>:<line>" follow, in the order of the lines, with
\* the number and the address of the marker; other lines give no frame; and
\* the line "#0  <addr> in kernel_main () at kernel/src/main.rs:42" gives
\* the frame with number 0, the address, function kernel_main, args "",
\* file kernel/src/main.rs and line 42.
C25_OneFramePerMarkedLine ==
    (pc = "done" /\ caller = "parse" /\ variant = "session"
        /\ CommandClass(command) = "stack") =>
        LET marked == SelectSeq(Split(output, "\n"), LAMBDA l : MarkerOf(l) # << >>)
            frames == result.value
        IN  /\ Len(frames) = Len(marked)
            /\ \A i \in 1..Len(frames) :
                  /\ frames[i].number = MarkerOf(marked[i])[1]
                  /\ frames[i].address = MarkerOf(marked[i])[2]
            /\ (Len(marked) > 0 /\ StartsWith(marked[1], "#0  0xffffffff80001234 in kernel_main ()")) =>
                  frames[1] = [number |-> 0, address |-> "0xffffffff80001234",
                               function |-> "kernel_main", args |-> "",
                               file |-> "kernel/src/main.rs", line |-> 42]

\* the unit size an examine command asks for: the size letter of its
\* format (b, h, w, g), 8 when it has none
UnitSize(cmd) ==
    LET c == Lower(Strip(cmd))
        fmt == SubSeq(c, 3, SpanEndNot(c, 3, SpaceChars) - 1)
    IN  IF Contains(fmt, "b") THEN 1
        ELSE IF Contains(fmt, "h") THEN 2
        ELSE IF Contains(fmt, "w") THEN 4
        ELSE 8

RECURSIVE WordsAtWidth(_, _)
\* the memory words of the lines, the i-th value of a line at base + i * width
WordsAtWidth(lines, width) ==
    IF Len(lines) = 0 THEN << >>
    ELSE LET m == MatchMemory(Strip(lines[1]))
             vals == IF Len(m) = 2 THEN FindHex(m[2], 1) ELSE << >>
         IN  [i \in 1..Len(vals) |->
                 [address |-> Hex(HexToNat(m[1]) + (i - 1) * width),
                  value |-> vals[i]]]
             \o WordsAtWidth(Tail(lines), width)

\* C26: for an examine-memory command, every line that begins with an
\* address (and an optional bracketed symbol) and a colon gives one memory
\* word per hex value of the line, in order, the i-th (from 0) at address
\* base + i * word_width, where word_width is the unit size the command
\* names and 8 when it names none.
C26_WordAddressesByUnitSize ==
    (pc = "done" /\ caller = "parse" /\ variant = "session"
        /\ CommandClass(command) = "memory") =>
        result.value = WordsAtWidth(Split(output, "\n"), UnitSize(command))

\* the pattern Match occurs somewhere in the text
Occurs(Match(_, _), text) == \E i \in 1..Len(text) : Match(text, i).ok

\* C27: parse_stopped returns the event of the first of the breakpoint, the
\* signal and the exit pattern that occurs in the text, even when later
\* ones occur too: the reason is that pattern's, the fields are that
\* variant's only (file and line with a breakpoint only), and the result is
\* None exactly when none of the three occurs.
C27_FirstPatternDecidesTheEvent ==
    (pc = "done" /\ caller = "parse_stopped") =>
        LET bp == Occurs(MatchBreakpointHit, output)
            sig == Occurs(MatchSignal, output)
            ex == Occurs(MatchExit, output)
            r == result.event
        IN  /\ (r = None) <=> ~(bp \/ sig \/ ex)
            /\ r # None =>
                 /\ r[1].reason = IF bp THEN "breakpoint"
                                  ELSE IF sig THEN "signal" ELSE "exited"
                 /\ r[1].reason = "breakpoint" =>
                       /\ {"reason", "breakpoint_number", "function", "args"}
                             \subseteq DOMAIN r[1]
                       /\ DOMAIN r[1] \subseteq
                             {"reason", "breakpoint_number", "function", "args",
                              "file", "line"}
                 /\ r[1].reason = "signal" =>
                       DOMAIN r[1] = {"reason", "signal", "description"}
                 /\ r[1].reason = "exited" =>
                       DOMAIN r[1] = {"reason", "exit_code"}

\* a text with a signal line before a breakpoint line gave the breakpoint
\* event
C27_Witness ==
    /\ pc = "done"
    /\ caller = "parse_stopped"
    /\ output = "Program received signal SIGINT, Interrupt.\nBreakpoint 2, f (x=1)"
    /\ result.event = Some([reason |-> "breakpoint", breakpoint_number |-> 2,
                            function |-> "f", args |-> "x=1"])


\* C28: any two sessions start_session.py has created, however close in
\* time, have different identifiers (and so different metadata records and
\* log files).
C28_SessionIdsAreUnique ==
    \A i, j \in DOMAIN created :
        (i # j /\ created[i].kind = "session" /\ created[j].kind = "session")
            => created[i].session_id # created[j].session_id


\* what a path holds on a disk
Holds(d, p) == IF p \in DOMAIN d THEN << d[p] >> ELSE << >>

\* C29: no mutable state is shared between controllers: a step in which a
\* live controller does nothing itself (another one is started, writes or
\* is stopped) leaves the files of that controller as they were.
C29_NoSharedFiles ==
    [][\A k \in DOMAIN created :
          (created[k].alive /\ created'[k] = created[k])
              => \A p \in FilesOf(created[k]) : Holds(disk', p) = Holds(disk, p)]_vars


\* a command text was written to the debugger in this step
Written == InFlight' > InFlight

\* C30: failures are not retried.  A step of the program writes at most
\* one command; while a call of execute / execute_command is in progress
\* or has ended (in a result, a timeout, a write error or with the debugger
\* dead) nothing more is written; outside the start handshake a command is
\* written only in the step in which the caller issues a new call; and a
\* child is started only by the start handshake, and only once.
C30_NoAutomaticRetry ==
    [][/\ Written => InFlight' = InFlight + 1
       /\ caller = "execute" => ~Written
       /\ (Written /\ caller # "start" /\ caller' # "start") =>
              (pc = "idle" /\ caller' = "execute" /\ ncmds' = ncmds + 1)
       /\ (gdb_process' = "running" /\ gdb_process # "running") =>
              (gdb_process = "none" /\ caller' = "start")
       /\ (qemu_process' = "running" /\ qemu_process # "running") =>
              (qemu_process = "none" /\ caller' = "start")]_vars

\* C30, its case: execute("continue") timed out, its command was written
\* once and is still unanswered, the children run, the result is out
C30_Witness ==
    /\ variant = "chat"
    /\ pc = "done"
    /\ caller = "execute"
    /\ result.success = FALSE
    /\ result.error = "timeout"
    /\ result.command = "continue"
    /\ ncmds = 1
    /\ queued = 1
    /\ promptEnds = << >>
    /\ gdb_process = "running"


\* C31: execute scans with breakpoint detection enabled exactly for the
\* continue-class and run-class commands, whether the deadline is the class
\* default or a timeout given by the caller.
C31_BreakpointDetectionByClass ==
    (variant = "chat" /\ pc = "scan" /\ caller = "execute") =>
        LET key == Lower(Strip(command)) IN
        allow_breakpoint = (key \in {"continue", "c", "cont"} \/ StartsWith(key, "run"))


\* C32: every failure that GDBChat.execute returns, the one for a debugger
\* that is not running included, comes after a read of the new serial text:
\* the cursor has moved over the new bytes and the failure carries them as
\* serial_output exactly when there are any.
C32_EveryFailureReadsSerial ==
    [][ ( /\ variant = "chat"
          /\ pc # "done"
          /\ pc' = "done"
          /\ caller' = "execute"
          /\ IsFailureResult(result') ) =>
        ( /\ serial_read_pos' = serial_read_pos + NewSerialBytes
          /\ ("serial_output" \in DOMAIN result') = (NewSerialBytes > 0) )
      ]_vars


\* a call of execute_command whose command was written to the debugger
\* returns in this step
SentCommandReturns ==
    /\ variant = "session"
    /\ caller = "execute"
    /\ pc \in {"got", "timedout"}
    /\ pc' = "done"

\* C33: the command counter of a GDBSession never decreases, grows by
\* exactly one when a call of execute_command that sent its command
\* returns, whether with a result, a debugger error or a timeout, and
\* changes in no other step; stop() reports the counter.
C33_CounterCountsSentCommands ==
    [][ variant = "session" =>
          /\ command_count' >= command_count
          /\ SentCommandReturns => command_count' = command_count + 1
          /\ ~SentCommandReturns => command_count' = command_count
          /\ (pc' = "exited" /\ pc # "exited" /\ "total_commands" \in DOMAIN result')
                => result'.total_commands = command_count
      ]_vars


\* the failure phrases execute_command looks for
HasFailurePhrase(text) == Contains(text, "Cannot") \/ Contains(text, "No symbol")

\* C34: when the response of the debugger contains "Cannot" or "No symbol",
\* execute_command returns a failure of type gdb_error whose error is the
\* debugger's text, without parsed output; otherwise it returns a success.
C34_FailurePhraseIsGdbError ==
    [][ (variant = "session" /\ pc = "got" /\ pc' = "done" /\ caller = "execute") =>
          IF HasFailurePhrase(output)
          THEN /\ result'.success = FALSE
               /\ result'.error_type = "gdb_error"
               /\ HasFailurePhrase(result'.error)
               /\ "output" \notin DOMAIN result'
          ELSE result'.success = TRUE
      ]_vars


\* a line that is the echo of the command, with or without the prompt
\* in front of it
IsEcho(l, cmd) == Strip(l) = Strip(cmd) \/ Strip(l) = "(gdb) " \o Strip(cmd)

\* the raw text without its blank lines, prompt lines and command echo
WithoutPromptAndEcho(raw, cmd) ==
    Strip(Join(SelectSeq(Split(raw, "\n"),
                         LAMBDA l : /\ Strip(l) # ""
                                    /\ Strip(l) # GDB_PROMPT
                                    /\ ~IsEcho(l, cmd)),
               "\n"))

\* the cleaned text in a result: raw of a success, error of a gdb_error
CleanedIn(r) == IF "raw" \in DOMAIN r THEN r.raw ELSE r.error

\* C35: the cleaning of execute / execute_command removes the blank lines,
\* the prompt lines and the echo of the command, and keeps every other
\* line of the response in order, whatever the command text.
C35_CleaningKeepsOtherLines ==
    [][ (pc = "got" /\ pc' = "done" /\ caller = "execute") =>
          CleanedIn(result') = WithoutPromptAndEcho(output, command)
      ]_vars


\* C36: the idle timer of the scanner of GDBChat runs only with breakpoint
\* detection and never ends the wait.  The step in which it fires writes
\* the heartbeat, resets the timer and stays in the scanner; the scanner
\* is left only with a terminal text or past the deadline; and without
\* breakpoint detection no heartbeat is written.
C36_IdleTimerOnlyHeartbeats ==
    [][ (variant = "chat" /\ pc = "scan") =>
          /\ heartbeat' => allow_breakpoint
          /\ (heartbeat' /\ ~heartbeat) =>
                /\ pc' = "scan"
                /\ output' = output
                /\ (elapsed' - last_output_time) > idle_timeout
                /\ last_output_time' = elapsed'
          /\ pc' \in {"scan", "got", "timedout"}
          /\ pc' = "got" => ChatTerminal(output', allow_breakpoint)
          /\ pc' = "timedout" => ~(elapsed < timeout)
      ]_vars

\* C36, its case: the idle timer has fired during a continue, the scanner
\* goes on with time left before the deadline
C36_Witness ==
    /\ variant = "chat"
    /\ pc = "scan"
    /\ allow_breakpoint
    /\ heartbeat
    /\ last_output_time = elapsed
    /\ elapsed < timeout


\* C37: no byte of the serial log is lost by the incremental delivery:
\* whenever the read cursor moves, the result of that call carries as
\* serial_output all bytes from the old cursor to the new one, so that
\* the texts delivered so far add up to the log up to the cursor.
C37_CursorMovesOnlyOverDeliveredBytes ==
    [][ (variant = "chat" /\ serial_read_pos' # serial_read_pos) =>
          /\ "serial_output" \in DOMAIN result'
          /\ result'.serial_output = [from |-> serial_read_pos, to |-> serial_read_pos']
      ]_vars


\* C38: the "serial" command (get_all_serial_output) leaves the read
\* cursor and the log as they are and writes nothing to the debugger, so
\* what get_new_serial_output would return next is the same after it as
\* before it.
C38_FullReadLeavesCursor ==
    [][ (variant = "chat" /\ pc = "idle" /\ pc' = "done" /\ caller' = "serial") =>
          /\ serial_read_pos' = serial_read_pos
          /\ delivered' = delivered
          /\ serialSize' = serialSize
          /\ serialExists' = serialExists
          /\ NewSerialText' = NewSerialText
          /\ InFlight' = InFlight
          /\ stream' = stream
      ]_vars

\* C38, its case: the whole log was read while bytes the caller has
\* not yet got incrementally are in it
C38_Witness ==
    /\ variant = "chat"
    /\ pc = "done"
    /\ caller = "serial"
    /\ result.command = "serial"
    /\ result.serial_output = [from |-> 0, to |-> serialSize]
    /\ serial_read_pos > 0
    /\ serial_read_pos < serialSize


\* the recorded children of a session are both dead: neither recorded pid
\* is held by a child of the session
BothDead(reg, table, id) ==
    /\ reg[id].metadata # None
    /\ table[reg[id].metadata[1].gdb_pid] # "child"
    /\ table[reg[id].metadata[1].qemu_pid] # "child"

\* C39: list_sessions.py --cleanup removes the files of exactly the
\* sessions whose debugger and emulator are both dead, leaves every other
\* session's files alone, signals no process, and reports afterwards no
\* session whose children are both dead.
C39_CleanupRemovesExactlyTheDead ==
    [][ ListSessions(TRUE) =>
          /\ procs' = procs
          /\ \A id \in SessionIds :
                registry'[id] = IF BothDead(registry, procs, id) THEN NoSession
                                ELSE registry[id]
          /\ \A i \in DOMAIN result'.sessions :
                ~BothDead(registry', procs, result'.sessions[i].session_id)
      ]_vars


\* C40: parse_registers returns one entry per register name: every line of
\* the form name, whitespace, hexadecimal number gives name -> that number
\* (what follows the number is ignored), no other line gives anything, and
\* of several lines with one name the last decides.
C40_OneEntryPerRegisterName ==
    (pc = "done" /\ caller = "parse" /\ result.type = "dict") =>
        LET lines == Split(output, "\n")
            M(i) == MatchRegister(Strip(lines[i]))
            hits == { i \in 1..Len(lines) : Len(M(i)) = 2 }
            regs == result.value
        IN  /\ DOMAIN regs = { M(i)[1] : i \in hits }
            /\ \A i \in hits :
                  (\A j \in hits : j > i => M(j)[1] # M(i)[1]) => regs[M(i)[1]] = M(i)[2]

\* C40, its case: a listing with a flags line, and rax on two lines
C40_Witness ==
    /\ variant = "session"
    /\ pc = "done"
    /\ caller = "parse"
    /\ result.type = "dict"
    /\ output = "eflags 0x246 [ PF ZF ]\nrax 0x0 0\nrax 0x2 2"
    /\ DOMAIN result.value = {"eflags", "rax"}
    /\ result.value["rax"] = "0x2"
    /\ result.value["eflags"] = "0x246"

=============================================================================
